---- MODULE Spec2Model ----
(***************************************************************************)
(* cssguard: the pattern trainer (pkg/trainer) and the validator           *)
(* (pkg/validator).  Class names and regular expressions are sequences of  *)
(* one-character strings, so that prefix extraction, regexp.QuoteMeta,     *)
(* sort.Strings and regexp matching are computed character by character.   *)
(***************************************************************************)
EXTENDS Integers, Sequences, FiniteSets, TLC

----------------------------------------------------------------------------
(* Bytes and strings *)

\* The printable ASCII characters in code order; Ascii[i] has code i + 31
\* (the three quote characters, which no class name or pattern here holds,
\* are spelled out).
Ascii ==
  <<
     " ","!","dquote","#","$","%","&","squote","(",")","*","+",",","-",".","/",
     "0","1","2","3","4","5","6","7","8","9",":",";","<","=",">","?",
     "@","A","B","C","D","E","F","G","H","I","J","K","L","M","N","O",
     "P","Q","R","S","T","U","V","W","X","Y","Z","[","\\","]","^","_",
     "backtick","a","b","c","d","e","f","g","h","i","j","k","l","m","n","o",
     "p","q","r","s","t","u","v","w","x","y","z","{","|","}","~"
  >>

Chars == {Ascii[i] : i \in DOMAIN Ascii}

\* Byte value of a character (Go compares strings bytewise).
Ord == [c \in Chars |-> (CHOOSE i \in DOMAIN Ascii : Ascii[i] = c) + 31]

IsDigit(c) == Ord[c] >= 48 /\ Ord[c] <= 57

IsAlpha(c) == (Ord[c] >= 65 /\ Ord[c] <= 90) \/ (Ord[c] >= 97 /\ Ord[c] <= 122)

Min(S) == CHOOSE x \in S : \A y \in S : x <= y

\* a < b for Go strings: bytewise lexicographic order.
StrLess(a, b) ==
  \E i \in 1..Len(b) :
    /\ \A k \in 1..(i - 1) : k <= Len(a) /\ a[k] = b[k]
    /\ (i > Len(a) \/ Ord[a[i]] < Ord[b[i]])

StrLeq(a, b) == ~StrLess(b, a)

\* strings.TrimPrefix
TrimPrefix(s, p) ==
  IF Len(p) <= Len(s) /\ SubSeq(s, 1, Len(p)) = p
  THEN SubSeq(s, Len(p) + 1, Len(s))
  ELSE s

\* strings.Join
RECURSIVE Join(_, _)
Join(parts, sep) ==
  IF Len(parts) = 0 THEN <<>>
  ELSE IF Len(parts) = 1 THEN parts[1]
  ELSE parts[1] \o sep \o Join(Tail(parts), sep)

\* Insert x into the ascending sequence q, after the entries equal to it.
RECURSIVE InsertSorted(_, _)
InsertSorted(q, x) ==
  IF Len(q) = 0 THEN <<x>>
  ELSE IF StrLess(x, q[1]) THEN <<x>> \o q
  ELSE <<q[1]>> \o InsertSorted(Tail(q), x)

\* sort.Strings: the elements of seq (with their multiplicities) ascending.
RECURSIVE SortStrings(_)
SortStrings(seq) ==
  IF Len(seq) = 0 THEN <<>>
  ELSE InsertSorted(SortStrings(Tail(seq)), seq[1])


NoDuplicates(seq) == \A i, j \in DOMAIN seq : i # j => seq[i] # seq[j]

Range(seq) == {seq[i] : i \in DOMAIN seq}

\* Some enumeration of a finite set as a sequence (one fixed order).
RECURSIVE SetToSeq(_)
SetToSeq(S) ==
  IF S = {} THEN <<>>
  ELSE LET x == CHOOSE y \in S : TRUE IN <<x>> \o SetToSeq(S \ {x})

\* Every order in which the elements of a finite set can be visited
\* (the iteration order of a Go map is unspecified).
RECURSIVE Orderings(_)
Orderings(S) ==
  IF S = {} THEN {<<>>}
  ELSE UNION {{<<x>> \o r : r \in Orderings(S \ {x})} : x \in S}

----------------------------------------------------------------------------
(* regexp: QuoteMeta, Compile and MatchString for the syntax the trainer   *)
(* emits and the curated catalogue uses: literals, escapes, \d, dot,       *)
(* [classes], (groups), alternation, ^ $, and the repetitions ? * + {m,n}. *)

SpecialBytes == {"\\", ".", "+", "*", "?", "(", ")", "|", "[", "]", "{", "}", "^", "$"}


\* A faulty QuoteMeta that escapes nothing; the usability property C26 must
\* tell it from the real one.
QuoteMetaNone(s) == s

\* regexp.QuoteMeta: a backslash before every regexp metacharacter.
RECURSIVE QuoteMeta(_)
QuoteMeta(s) ==
  IF Len(s) = 0 THEN <<>>
  ELSE (IF s[1] \in SpecialBytes THEN <<"\\", s[1]>> ELSE <<s[1]>>)
       \o QuoteMeta(Tail(s))

Max(S) == CHOOSE x \in S : \A y \in S : x >= y

\* re[j] follows an odd run of backslashes: it is escaped.
Escaped(re, j) ==
  j > 1 /\ re[j - 1] = "\\"
        /\ (j - 1 - Max({0} \cup {i \in 1..(j - 1) : re[i] # "\\"})) % 2 = 1

\* re[j] lies inside a character class [...] (its closing bracket included).
InClass(re, j) ==
  \E o \in 1..(j - 1) :
    /\ re[o] = "[" /\ ~Escaped(re, o)
    /\ \A c \in (o + 1)..(j - 1) : ~(re[c] = "]" /\ ~Escaped(re, c))

\* re[j] is read as regexp syntax: neither escaped nor inside a class.
Plain(re, j) == ~Escaped(re, j) /\ ~InClass(re, j)

\* Index of the "]" closing the class opened at o (0: none).
ClassEnd(re, o) ==
  LET closes == {c \in (o + 1)..Len(re) : re[c] = "]" /\ ~Escaped(re, c)}
  IN IF closes = {} THEN 0 ELSE Min(closes)

\* Groups opened and not closed in re[lo..j-1].
Depth(re, lo, j) ==
  Cardinality({k \in lo..(j - 1) : re[k] = "(" /\ Plain(re, k)})
  - Cardinality({k \in lo..(j - 1) : re[k] = ")" /\ Plain(re, k)})

\* Index of the ")" closing the group opened at i (0: none).
GroupEnd(re, i) ==
  LET closes == {j \in (i + 1)..Len(re) : re[j] = ")" /\ Plain(re, j) /\ Depth(re, i, j) = 1}
  IN IF closes = {} THEN 0 ELSE Min(closes)

\* First index in j..hi holding character c (0: none).
IndexOf(re, j, hi, c) ==
  LET found == {k \in j..hi : re[k] = c} IN IF found = {} THEN 0 ELSE Min(found)

\* Value of the decimal digits re[a..b].
RECURSIVE ParseNat(_, _, _)
ParseNat(re, a, b) ==
  IF a > b THEN 0 ELSE ParseNat(re, a, b - 1) * 10 + (Ord[re[b]] - 48)

\* re[q..] is a counted repetition {m} or {m,n}: its closing brace, else 0.
CountedEnd(re, q, hi) ==
  LET close == IndexOf(re, q + 1, hi, "}")
      comma == IF close = 0 THEN 0 ELSE IndexOf(re, q + 1, close - 1, ",")
      digits(a, b) == a <= b /\ \A k \in a..b : IsDigit(re[k])
  IN IF close = 0 THEN 0
     ELSE IF comma = 0 THEN (IF digits(q + 1, close - 1) THEN close ELSE 0)
     ELSE IF digits(q + 1, comma - 1) /\ digits(comma + 1, close - 1) THEN close
     ELSE 0

\* A repetition operator ? * + {m,n} starts at q.
IsRepetition(re, q, hi) ==
  q <= hi /\ (re[q] \in {"?", "*", "+"} \/ (re[q] = "{" /\ CountedEnd(re, q, hi) # 0))

\* Characters that are not matched literally where they are read as syntax.
MetaBytes == {"\\", ".", "+", "*", "?", "(", ")", "|", "[", "^", "$"}

\* Index of the last character of the atom that starts at i within re[..hi]:
\* an escape, a class, a group, or a run of literal characters up to the next
\* metacharacter (less its last character when a repetition follows it).
AtomEnd(re, i, hi) ==
  IF re[i] = "\\" THEN i + 1
  ELSE IF re[i] = "[" THEN ClassEnd(re, i)
  ELSE IF re[i] = "(" THEN GroupEnd(re, i)
  ELSE IF re[i] \in MetaBytes THEN i
  ELSE LET stop == Min({k \in (i + 1)..hi : re[k] \in MetaBytes \/ IsRepetition(re, k, hi)}
                       \cup {hi + 1})
       IN IF IsRepetition(re, stop, hi) /\ stop - 1 > i THEN stop - 2 ELSE stop - 1

\* The repetition that follows an atom ending at e, within re[..hi]:
\* [min, max, end]; max = -1 is unbounded; end is the last index it occupies
\* (a "?" after the operator only makes it lazy).
Repetition(re, e, hi) ==
  LET q == e + 1
      lazy(k) == IF k + 1 <= hi /\ re[k + 1] = "?" THEN k + 1 ELSE k
  IN IF q > hi THEN [min |-> 1, max |-> 1, end |-> e]
     ELSE IF re[q] = "?" THEN [min |-> 0, max |-> 1, end |-> lazy(q)]
     ELSE IF re[q] = "*" THEN [min |-> 0, max |-> -1, end |-> lazy(q)]
     ELSE IF re[q] = "+" THEN [min |-> 1, max |-> -1, end |-> lazy(q)]
     ELSE IF re[q] = "{" /\ CountedEnd(re, q, hi) # 0 THEN
       LET close == CountedEnd(re, q, hi)
           comma == IndexOf(re, q + 1, close - 1, ",")
       IN IF comma = 0
          THEN [min |-> ParseNat(re, q + 1, close - 1),
                max |-> ParseNat(re, q + 1, close - 1), end |-> lazy(close)]
          ELSE [min |-> ParseNat(re, q + 1, comma - 1),
                max |-> ParseNat(re, comma + 1, close - 1), end |-> lazy(close)]
     ELSE [min |-> 1, max |-> 1, end |-> e]

\* Indices of the "|" of re[lo..hi] that are outside every group and class.
TopBars(re, lo, hi) ==
  {b \in lo..hi : re[b] = "|" /\ Plain(re, b) /\ Depth(re, lo, b) = 0}

\* c is a member of the class body re[j..b] (single characters and ranges a-z).
RECURSIVE ClassHas(_, _, _, _)
ClassHas(re, j, b, c) ==
  IF j > b THEN FALSE
  ELSE IF j + 2 <= b /\ re[j + 1] = "-"
  THEN (Ord[re[j]] <= Ord[c] /\ Ord[c] <= Ord[re[j + 2]]) \/ ClassHas(re, j + 3, b, c)
  ELSE re[j] = c \/ ClassHas(re, j + 1, b, c)

RECURSIVE MatchAlt(_, _, _, _, _)
RECURSIVE MatchSeq(_, _, _, _, _)
RECURSIVE MatchAtom(_, _, _, _, _)
RECURSIVE MatchTimes(_, _, _, _, _, _)
RECURSIVE MatchClosure(_, _, _, _, _, _)

\* Positions of s (number of characters consumed) reachable from a position of
\* P by matching the atom re[lo..e] once.
MatchAtom(re, lo, e, s, P) ==
  CASE re[lo] = "^" -> P \cap {0}
    [] re[lo] = "$" -> P \cap {Len(s)}
    [] re[lo] = "(" ->
         IF lo + 2 <= e /\ re[lo + 1] = "?" /\ re[lo + 2] = ":"
         THEN MatchAlt(re, lo + 3, e - 1, s, P)
         ELSE MatchAlt(re, lo + 1, e - 1, s, P)
    [] re[lo] = "\\" ->
         {p + 1 : p \in {x \in P : x < Len(s) /\
                           IF re[e] = "d" THEN IsDigit(s[x + 1]) ELSE s[x + 1] = re[e]}}
    [] re[lo] = "[" ->
         {p + 1 : p \in {x \in P : x < Len(s) /\ ClassHas(re, lo + 1, e - 1, s[x + 1])}}
    [] re[lo] = "." -> {p + 1 : p \in {x \in P : x < Len(s)}}
    [] OTHER ->
         {p + (e - lo + 1) :
            p \in {x \in P : x + (e - lo + 1) <= Len(s)
                             /\ SubSeq(s, x + 1, x + (e - lo + 1)) = SubSeq(re, lo, e)}}

\* ... by matching the atom exactly k times.
MatchTimes(re, lo, e, s, P, k) ==
  IF k = 0 \/ P = {} THEN P
  ELSE MatchTimes(re, lo, e, s, MatchAtom(re, lo, e, s, P), k - 1)

\* ... by matching the atom any number of times (done: positions already
\* expanded, P: positions still to expand).
MatchClosure(re, lo, e, s, done, P) ==
  IF P \subseteq done THEN done
  ELSE MatchClosure(re, lo, e, s, done \cup P, MatchAtom(re, lo, e, s, P \ done))

\* ... by matching the concatenation re[lo..hi] (no top-level "|").
MatchSeq(re, lo, hi, s, P) ==
  IF lo > hi \/ P = {} THEN P
  ELSE LET e == AtomEnd(re, lo, hi)
           r == Repetition(re, e, hi)
           least == MatchTimes(re, lo, e, s, P, r.min)
           got == IF r.max = -1 THEN MatchClosure(re, lo, e, s, {}, least)
                  ELSE UNION {MatchTimes(re, lo, e, s, least, k) : k \in 0..(r.max - r.min)}
       IN MatchSeq(re, r.end + 1, hi, s, got)

\* ... by matching one of the alternatives of re[lo..hi].
MatchAlt(re, lo, hi, s, P) ==
  LET bars == TopBars(re, lo, hi)
      starts == {lo} \cup {b + 1 : b \in bars}
      stop(st) == Min({b \in bars : b >= st} \cup {hi + 1}) - 1
  IN UNION {MatchSeq(re, st, stop(st), s, P) : st \in starts}

\* Matching computed from the pattern text: it matches some substring of s.
Matches(re, s) == MatchAlt(re, 1, Len(re), s, 0..Len(s)) # {}

EscapeLetters == {"d", "D", "w", "W", "s", "S", "b", "B", "A", "z", "n", "t", "r", "f", "v", "a"}

\* j is the last index of a repetition operator (lazy marker not included).
RECURSIVE EndsRepetition(_, _)
EndsRepetition(re, j) ==
  /\ j >= 1 /\ Plain(re, j)
  /\ \/ re[j] \in {"*", "+"}
     \/ re[j] = "?" /\ ~(j > 1 /\ EndsRepetition(re, j - 1))
     \/ re[j] = "}" /\ \E q \in 1..(j - 1) : re[q] = "{" /\ Plain(re, q) /\ CountedEnd(re, q, Len(re)) = j

\* j is a "?" that makes the repetition before it lazy.
IsLazyMark(re, j) == re[j] = "?" /\ Plain(re, j) /\ j > 1 /\ EndsRepetition(re, j - 1)

\* The pattern parses: no trailing backslash, every escape is known, every
\* class closes, parentheses balance, and every repetition operator follows
\* something it can repeat.
WellFormed(re) ==
  LET n == Len(re)
  IN /\ \A j \in 1..n :
          re[j] = "\\" /\ ~Escaped(re, j) =>
            /\ j < n
            /\ (~IsAlpha(re[j + 1]) /\ ~IsDigit(re[j + 1])) \/ re[j + 1] \in EscapeLetters
     /\ \A j \in 1..n : re[j] = "[" /\ Plain(re, j) => ClassEnd(re, j) > j + 1
     /\ \A j \in 1..n : re[j] = ")" /\ Plain(re, j) => Depth(re, 1, j) > 0
     /\ Depth(re, 1, n + 1) = 0
     /\ \A j \in 1..n :
          Plain(re, j) /\ IsRepetition(re, j, n) /\ ~IsLazyMark(re, j) =>
            /\ j > 1
            /\ ~(Plain(re, j - 1) /\ re[j - 1] \in {"(", "|"})
            /\ ~EndsRepetition(re, j - 1)
            /\ ~IsLazyMark(re, j - 1)

----------------------------------------------------------------------------
(* Class names *)

c_border == <<"b","o","r","d","e","r">>
c_border_2 == <<"b","o","r","d","e","r","-","2">>
c_border_4 == <<"b","o","r","d","e","r","-","4">>
c_w_1 == <<"w","-","1">>
c_w_2 == <<"w","-","2">>
c_w_1s2 == <<"w","-","1","/","2">>
c_h_1d5 == <<"h","-","1",".","5">>
c_h_2d5 == <<"h","-","2",".","5">>
c_h_3d5 == <<"h","-","3",".","5">>
c_m_2 == <<"m","-","2">>
c_m_4 == <<"m","-","4">>
c_m_8 == <<"m","-","8">>
c_flex == <<"f","l","e","x">>
c_mdcp_4 == <<"m","d",":","p","-","4">>
c_w_9 == <<"w","-","9">>
c_w_x == <<"w","-","x">>
c_zz == <<"z","z">>
c_m_1 == <<"m","-","1">>
c_m_3 == <<"m","-","3">>
c_m_5 == <<"m","-","5">>
c_m_6 == <<"m","-","6">>
c_w_1sq == <<"w","-","1","[","]">>
c_w_2par == <<"w","-","2","(",")">>
c_w_3br == <<"w","-","3","{","}">>
c_w_4bar == <<"w","-","4","|","\\">>
c_w_5anc == <<"w","-","5","^","$">>
c_w_6rep == <<"w","-","6",".","+","*","?">>
c_w1 == <<"w","1">>
c_w__1 == <<"w","-","-","1">>
c__1 == <<"-","1">>
c_1x == <<"1","x">>
c_w_u1 == <<"w","_","1">>

\* Class names handed to groupByPrefix on its own.
GroupTokens ==
  {c_w_1, c_w1, c_w__1, c__1, c_1x, c_w_u1, c_w_x, c_flex, c_mdcp_4, c_w_1s2}

\* Largest class set handed to groupByPrefix on its own.
MaxGroupTokens == 3

\* Class sets of stylesheets whose class names hold every regexp
\* metacharacter after the prefix w.
SpecialSheets ==
  { {c_w_1sq, c_w_2par, c_w_3br}, {c_w_4bar}, {c_w_5anc}, {c_w_6rep}, {c_w_1} }

\* Largest training set of such class names explored.
MaxSpecial == 4

\* Class sets of the stylesheets of one large family, m-1 to m-8.
FamilySheets ==
  { {c_m_1, c_m_2, c_m_3}, {c_m_4, c_m_5}, {c_m_6}, {c_m_8}, {c_flex} }

\* Largest training set of the large family explored.
MaxFamily == 6

\* Class sets of the stylesheets handed to AddClasses.
Stylesheets ==
  { {c_border, c_border_2, c_border_4},
    {c_w_1, c_w_2},
    {c_w_1s2},
    {c_h_1d5, c_h_2d5, c_h_3d5},
    {c_m_2, c_m_4, c_m_8},
    {c_flex, c_mdcp_4} }

\* Largest training set explored.
MaxClasses == 4

\* Most Train calls explored on one Trainer.
MaxTrains == 2

----------------------------------------------------------------------------
(* pkg/trainer *)

VARIABLES
  classes,       \* Trainer.classes
  config,        \* Trainer.config (*Config, returned by Train)
  trains,        \* number of Train calls made on the Trainer
  prefixGroups,  \* the groups computed by the latest Train call
  v,             \* the Validator held by the caller of validator.New
  ret,           \* the latest validator or command call and what it returned
  regexps,       \* package regexp: what Compile and MatchString answer, by pattern text
  output,        \* the content of the file at the --output path (Nil: no such file)
  loaded,        \* what the latest trainer.LoadConfig call on that path returned
  calls,         \* number of ValidateAgainstPatterns calls made on v
  callers        \* the goroutines running ValidateAgainstPatterns on v, by caller

vars == <<classes, config, trains, prefixGroups, v, ret, regexps, output, loaded, calls, callers>>

Nil == [nil |-> TRUE]

Version == <<"1",".","0",".","0">>

\* trainer.New
NewTrainer ==
  [classes |-> {},
   config |-> [Version |-> Version, Patterns |-> <<>>,
               LiteralClasses |-> <<>>, Ignored |-> <<>>]]

\* Groups of at least this many classes become a pattern.
MinSupport == 3

\* A pattern keeps at most this many examples.
MaxExamples == 5

\* The prefix regexp ^([a-zA-Z-]+?)(?:-?\d|$) applied to class: the length of
\* submatch 1, the shortest non-empty run of letters and hyphens that is
\* followed by an optional hyphen and a digit or by the end of the class;
\* 0 when the regexp does not match.
PrefixMatchGreedy(class) ==
  LET n == Len(class)
      run(k) == \A i \in 1..k : IsAlpha(class[i]) \/ class[i] = "-"
      follows(k) == \/ k = n
                    \/ IsDigit(class[k + 1])
                    \/ (class[k + 1] = "-" /\ k + 2 <= n /\ IsDigit(class[k + 2]))
      cands == {k \in 1..n : run(k) /\ follows(k)}
  IN IF cands = {} THEN 0 ELSE Max(cands)

PrefixMatch(class) ==
  LET n == Len(class)
      run(k) == \A i \in 1..k : IsAlpha(class[i]) \/ class[i] = "-"
      follows(k) == \/ k = n
                    \/ IsDigit(class[k + 1])
                    \/ (class[k + 1] = "-" /\ k + 2 <= n /\ IsDigit(class[k + 2]))
      cands == {k \in 1..n : run(k) /\ follows(k)}
  IN IF cands = {} THEN 0 ELSE Min(cands)

\* The group key of a class.
PrefixOf(class) ==
  IF PrefixMatch(class) > 0 THEN SubSeq(class, 1, PrefixMatch(class)) ELSE class

\* PrefixOf tabulated over the class names of the stylesheets.
prefixKey ==
  [class \in (UNION Stylesheets) \cup GroupTokens \cup (UNION FamilySheets)
             \cup (UNION SpecialSheets) |-> PrefixOf(class)]

\* The classes of order whose key is prefix, in the order visited.
RECURSIVE GroupOf(_, _)
GroupOf(order, prefix) ==
  IF Len(order) = 0 THEN <<>>
  ELSE (IF prefixKey[Head(order)] = prefix THEN <<Head(order)>> ELSE <<>>)
       \o GroupOf(Tail(order), prefix)

\* groupByPrefix, visiting Trainer.classes in the given order.
groupByPrefix(order) ==
  [prefix \in {prefixKey[order[i]] : i \in DOMAIN order} |-> GroupOf(order, prefix)]

\* The suffix of a class of the group: the prefix and one hyphen stripped.
SuffixOf(prefix, class) == TrimPrefix(TrimPrefix(class, prefix), <<"-">>)

IsNumber(suffix) == Len(suffix) > 0 /\ \A i \in DOMAIN suffix : IsDigit(suffix[i])

IsWord(suffix) == Len(suffix) > 0 /\ \A i \in DOMAIN suffix : IsAlpha(suffix[i])

\* A faulty generatePattern that lists the numeric suffixes it saw instead of
\* generalising them to \d+; the generalisation property C7 must tell it from
\* the real one.
generatePatternEnumerates(prefix, group) ==
  LET suffixes == {SuffixOf(prefix, group[i]) : i \in DOMAIN group} \ {<<>>}
      visited == SetToSeq(suffixes)
      regexParts == [i \in DOMAIN visited |->
                       IF IsWord(visited[i]) THEN visited[i] ELSE QuoteMeta(visited[i])]
      regex == <<"^">> \o QuoteMeta(prefix) \o <<"-","?","(">>
               \o Join(SortStrings(regexParts), <<"|">>) \o <<")","$">>
  IN IF suffixes = {} THEN Nil
     ELSE [Name |-> prefix,
           Regex |-> regex,
           Description |-> <<"M","a","t","c","h","e","s"," ">> \o prefix
                           \o <<"-","*"," ","u","t","i","l","i","t","y"," ","c","l","a","s","s","e","s">>,
           Examples |-> IF Len(group) > MaxExamples THEN SubSeq(group, 1, MaxExamples) ELSE group,
           Count |-> Len(group)]

\* A faulty generatePattern that keeps every class of the group as an example;
\* the metadata property C25 must tell it from the real one.
generatePatternKeepsAll(prefix, group) ==
  LET suffixes == {SuffixOf(prefix, group[i]) : i \in DOMAIN group} \ {<<>>}
      hasNumbers == \E s \in suffixes : IsNumber(s)
      hasWords == \E s \in suffixes : IsWord(s)
      visited == SetToSeq({s \in suffixes : ~IsNumber(s)})
      regexParts == [i \in DOMAIN visited |->
                       IF IsWord(visited[i]) THEN visited[i] ELSE QuoteMeta(visited[i])]
      cleanPrefix == QuoteMeta(prefix)
      alternatives == Join(SortStrings(regexParts), <<"|">>)
      regex ==
        IF hasNumbers /\ hasWords
        THEN <<"^">> \o cleanPrefix \o <<"-","?","(","\\","d","+","|">> \o alternatives \o <<")","$">>
        ELSE IF hasNumbers
        THEN <<"^">> \o cleanPrefix \o <<"-","?","\\","d","+","$">>
        ELSE <<"^">> \o cleanPrefix \o <<"-","?","(">> \o alternatives \o <<")","$">>
  IN IF suffixes = {} THEN Nil
     ELSE IF ~hasNumbers /\ Len(regexParts) = 0 THEN Nil
     ELSE [Name |-> prefix,
           Regex |-> regex,
           Description |-> <<"M","a","t","c","h","e","s"," ">> \o prefix
                           \o <<"-","*"," ","u","t","i","l","i","t","y"," ","c","l","a","s","s","e","s">>,
           Examples |-> group,
           Count |-> Len(group)]

\* generatePattern
generatePattern(prefix, group) ==
  LET suffixes == {SuffixOf(prefix, group[i]) : i \in DOMAIN group} \ {<<>>}
      hasNumbers == \E s \in suffixes : IsNumber(s)
      hasWords == \E s \in suffixes : IsWord(s)
      visited == SetToSeq({s \in suffixes : ~IsNumber(s)})
      regexParts == [i \in DOMAIN visited |->
                       IF IsWord(visited[i]) THEN visited[i] ELSE QuoteMeta(visited[i])]
      cleanPrefix == QuoteMeta(prefix)
      alternatives == Join(SortStrings(regexParts), <<"|">>)
      regex ==
        IF hasNumbers /\ hasWords
        THEN <<"^">> \o cleanPrefix \o <<"-","?","(","\\","d","+","|">> \o alternatives \o <<")","$">>
        ELSE IF hasNumbers
        THEN <<"^">> \o cleanPrefix \o <<"-","?","\\","d","+","$">>
        ELSE <<"^">> \o cleanPrefix \o <<"-","?","(">> \o alternatives \o <<")","$">>
  IN IF suffixes = {} THEN Nil
     ELSE IF ~hasNumbers /\ Len(regexParts) = 0 THEN Nil
     ELSE [Name |-> prefix,
           Regex |-> regex,
           Description |-> <<"M","a","t","c","h","e","s"," ">> \o prefix
                           \o <<"-","*"," ","u","t","i","l","i","t","y"," ","c","l","a","s","s","e","s">>,
           Examples |-> IF Len(group) > MaxExamples THEN SubSeq(group, 1, MaxExamples) ELSE group,
           Count |-> Len(group)]

\* The catalogue of well-known utility patterns.
tailwindPatterns ==
  <<
    [Name |-> <<"s","p","a","c","i","n","g">>,
     Regex |-> <<"^","(","m","|","p",")","(","t","|","r","|","b","|","l","|","x","|","y",")","?","-","(","\\","d","+","|","a","u","t","o","|","p","x",")","$">>,
     Description |-> <<"M","a","r","g","i","n"," ","a","n","d"," ","p","a","d","d","i","n","g"," ","u","t","i","l","i","t","i","e","s">>,
     Examples |-> <<>>, Count |-> 0],
    [Name |-> <<"s","i","z","i","n","g">>,
     Regex |-> <<"^","(","w","|","h","|","m","i","n","-","w","|","m","i","n","-","h","|","m","a","x","-","w","|","m","a","x","-","h",")","-","(","\\","d","+","|","a","u","t","o","|","f","u","l","l","|","s","c","r","e","e","n","|","m","i","n","|","m","a","x","|","f","i","t",")","$">>,
     Description |-> <<"W","i","d","t","h"," ","a","n","d"," ","h","e","i","g","h","t"," ","u","t","i","l","i","t","i","e","s">>,
     Examples |-> <<>>, Count |-> 0],
    [Name |-> <<"f","l","e","x">>,
     Regex |-> <<"^","(","f","l","e","x","|","g","r","o","w","|","s","h","r","i","n","k","|","b","a","s","i","s",")","-","?","(",".","*",")","$">>,
     Description |-> <<"F","l","e","x","b","o","x"," ","u","t","i","l","i","t","i","e","s">>,
     Examples |-> <<>>, Count |-> 0],
    [Name |-> <<"g","r","i","d">>,
     Regex |-> <<"^","(","g","r","i","d","|","c","o","l","|","r","o","w","|","g","a","p",")","-","?","(",".","*",")","$">>,
     Description |-> <<"G","r","i","d"," ","u","t","i","l","i","t","i","e","s">>,
     Examples |-> <<>>, Count |-> 0],
    [Name |-> <<"t","e","x","t">>,
     Regex |-> <<"^","t","e","x","t","-","(","x","s","|","s","m","|","b","a","s","e","|","l","g","|","x","l","|","\\","d","*","x","l","|","l","e","f","t","|","c","e","n","t","e","r","|","r","i","g","h","t","|","j","u","s","t","i","f","y","|","[","a","-","z","]","+","-","\\","d","+",")","$">>,
     Description |-> <<"T","e","x","t"," ","u","t","i","l","i","t","i","e","s">>,
     Examples |-> <<>>, Count |-> 0],
    [Name |-> <<"f","o","n","t">>,
     Regex |-> <<"^","f","o","n","t","-","(","s","a","n","s","|","s","e","r","i","f","|","m","o","n","o","|","t","h","i","n","|","l","i","g","h","t","|","n","o","r","m","a","l","|","m","e","d","i","u","m","|","s","e","m","i","b","o","l","d","|","b","o","l","d","|","e","x","t","r","a","b","o","l","d","|","b","l","a","c","k",")","$">>,
     Description |-> <<"F","o","n","t"," ","u","t","i","l","i","t","i","e","s">>,
     Examples |-> <<>>, Count |-> 0],
    [Name |-> <<"b","g">>,
     Regex |-> <<"^","b","g","-","(","t","r","a","n","s","p","a","r","e","n","t","|","c","u","r","r","e","n","t","|","b","l","a","c","k","|","w","h","i","t","e","|","[","a","-","z","]","+","-","\\","d","+","|","g","r","a","d","i","e","n","t","-",".","+",")","$">>,
     Description |-> <<"B","a","c","k","g","r","o","u","n","d"," ","u","t","i","l","i","t","i","e","s">>,
     Examples |-> <<>>, Count |-> 0],
    [Name |-> <<"b","o","r","d","e","r">>,
     Regex |-> <<"^","b","o","r","d","e","r","(","-","[","t","r","b","l","]",")","?","(","-","\\","d","+",")","?","(","-","[","a","-","z","]","+","-","\\","d","+",")","?","$">>,
     Description |-> <<"B","o","r","d","e","r"," ","u","t","i","l","i","t","i","e","s">>,
     Examples |-> <<>>, Count |-> 0],
    [Name |-> <<"r","o","u","n","d","e","d">>,
     Regex |-> <<"^","r","o","u","n","d","e","d","(","-","[","t","l","r","b","]","{","1",",","2","}",")","?","(","-","n","o","n","e","|","-","s","m","|","-","m","d","|","-","l","g","|","-","x","l","|","-","2","x","l","|","-","3","x","l","|","-","f","u","l","l",")","?","$">>,
     Description |-> <<"B","o","r","d","e","r"," ","r","a","d","i","u","s"," ","u","t","i","l","i","t","i","e","s">>,
     Examples |-> <<>>, Count |-> 0],
    [Name |-> <<"s","h","a","d","o","w">>,
     Regex |-> <<"^","s","h","a","d","o","w","(","-","n","o","n","e","|","-","s","m","|","-","m","d","|","-","l","g","|","-","x","l","|","-","2","x","l","|","-","i","n","n","e","r",")","?","$">>,
     Description |-> <<"S","h","a","d","o","w"," ","u","t","i","l","i","t","i","e","s">>,
     Examples |-> <<>>, Count |-> 0],
    [Name |-> <<"o","p","a","c","i","t","y">>,
     Regex |-> <<"^","o","p","a","c","i","t","y","-","\\","d","+","$">>,
     Description |-> <<"O","p","a","c","i","t","y"," ","u","t","i","l","i","t","i","e","s">>,
     Examples |-> <<>>, Count |-> 0],
    [Name |-> <<"z","-","i","n","d","e","x">>,
     Regex |-> <<"^","z","-","(","\\","d","+","|","a","u","t","o",")","$">>,
     Description |-> <<"Z","-","i","n","d","e","x"," ","u","t","i","l","i","t","i","e","s">>,
     Examples |-> <<>>, Count |-> 0],
    [Name |-> <<"t","r","a","n","s","i","t","i","o","n">>,
     Regex |-> <<"^","t","r","a","n","s","i","t","i","o","n","(","-","a","l","l","|","-","c","o","l","o","r","s","|","-","o","p","a","c","i","t","y","|","-","s","h","a","d","o","w","|","-","t","r","a","n","s","f","o","r","m","|","-","n","o","n","e",")","?","$">>,
     Description |-> <<"T","r","a","n","s","i","t","i","o","n"," ","u","t","i","l","i","t","i","e","s">>,
     Examples |-> <<>>, Count |-> 0],
    [Name |-> <<"d","u","r","a","t","i","o","n">>,
     Regex |-> <<"^","d","u","r","a","t","i","o","n","-","\\","d","+","$">>,
     Description |-> <<"D","u","r","a","t","i","o","n"," ","u","t","i","l","i","t","i","e","s">>,
     Examples |-> <<>>, Count |-> 0],
    [Name |-> <<"e","a","s","e">>,
     Regex |-> <<"^","e","a","s","e","-","(","l","i","n","e","a","r","|","i","n","|","o","u","t","|","i","n","-","o","u","t",")","$">>,
     Description |-> <<"E","a","s","i","n","g"," ","u","t","i","l","i","t","i","e","s">>,
     Examples |-> <<>>, Count |-> 0],
    [Name |-> <<"t","r","a","n","s","l","a","t","e">>,
     Regex |-> <<"^","-","?","t","r","a","n","s","l","a","t","e","-","[","x","y","]","-","(","\\","d","+","|","f","u","l","l","|","p","x",")","$">>,
     Description |-> <<"T","r","a","n","s","f","o","r","m"," ","t","r","a","n","s","l","a","t","e"," ","u","t","i","l","i","t","i","e","s">>,
     Examples |-> <<>>, Count |-> 0],
    [Name |-> <<"r","o","t","a","t","e">>,
     Regex |-> <<"^","-","?","r","o","t","a","t","e","-","\\","d","+","$">>,
     Description |-> <<"T","r","a","n","s","f","o","r","m"," ","r","o","t","a","t","e"," ","u","t","i","l","i","t","i","e","s">>,
     Examples |-> <<>>, Count |-> 0],
    [Name |-> <<"s","c","a","l","e">>,
     Regex |-> <<"^","s","c","a","l","e","-","[","x","y","]","?","-","?","\\","d","+","$">>,
     Description |-> <<"T","r","a","n","s","f","o","r","m"," ","s","c","a","l","e"," ","u","t","i","l","i","t","i","e","s">>,
     Examples |-> <<>>, Count |-> 0],
    [Name |-> <<"a","n","i","m","a","t","e">>,
     Regex |-> <<"^","a","n","i","m","a","t","e","-","(","n","o","n","e","|","s","p","i","n","|","p","i","n","g","|","p","u","l","s","e","|","b","o","u","n","c","e",")","$">>,
     Description |-> <<"A","n","i","m","a","t","i","o","n"," ","u","t","i","l","i","t","i","e","s">>,
     Examples |-> <<>>, Count |-> 0],
    [Name |-> <<"c","u","r","s","o","r">>,
     Regex |-> <<"^","c","u","r","s","o","r","-","(","a","u","t","o","|","d","e","f","a","u","l","t","|","p","o","i","n","t","e","r","|","w","a","i","t","|","t","e","x","t","|","m","o","v","e","|","n","o","t","-","a","l","l","o","w","e","d",")","$">>,
     Description |-> <<"C","u","r","s","o","r"," ","u","t","i","l","i","t","i","e","s">>,
     Examples |-> <<>>, Count |-> 0],
    [Name |-> <<"s","e","l","e","c","t">>,
     Regex |-> <<"^","s","e","l","e","c","t","-","(","n","o","n","e","|","t","e","x","t","|","a","l","l","|","a","u","t","o",")","$">>,
     Description |-> <<"U","s","e","r"," ","s","e","l","e","c","t"," ","u","t","i","l","i","t","i","e","s">>,
     Examples |-> <<>>, Count |-> 0],
    [Name |-> <<"o","v","e","r","f","l","o","w">>,
     Regex |-> <<"^","o","v","e","r","f","l","o","w","(","-","[","x","y","]",")","?","-","(","a","u","t","o","|","h","i","d","d","e","n","|","v","i","s","i","b","l","e","|","s","c","r","o","l","l",")","$">>,
     Description |-> <<"O","v","e","r","f","l","o","w"," ","u","t","i","l","i","t","i","e","s">>,
     Examples |-> <<>>, Count |-> 0],
    [Name |-> <<"p","o","s","i","t","i","o","n">>,
     Regex |-> <<"^","(","s","t","a","t","i","c","|","f","i","x","e","d","|","a","b","s","o","l","u","t","e","|","r","e","l","a","t","i","v","e","|","s","t","i","c","k","y",")","$">>,
     Description |-> <<"P","o","s","i","t","i","o","n"," ","u","t","i","l","i","t","i","e","s">>,
     Examples |-> <<>>, Count |-> 0],
    [Name |-> <<"i","n","s","e","t">>,
     Regex |-> <<"^","(","i","n","s","e","t","|","t","o","p","|","r","i","g","h","t","|","b","o","t","t","o","m","|","l","e","f","t",")","-","(","\\","d","+","|","a","u","t","o","|","p","x","|","f","u","l","l",")","$">>,
     Description |-> <<"P","o","s","i","t","i","o","n"," ","i","n","s","e","t"," ","u","t","i","l","i","t","i","e","s">>,
     Examples |-> <<>>, Count |-> 0],
    [Name |-> <<"d","i","s","p","l","a","y">>,
     Regex |-> <<"^","(","b","l","o","c","k","|","i","n","l","i","n","e","-","b","l","o","c","k","|","i","n","l","i","n","e","|","f","l","e","x","|","i","n","l","i","n","e","-","f","l","e","x","|","g","r","i","d","|","i","n","l","i","n","e","-","g","r","i","d","|","h","i","d","d","e","n",")","$">>,
     Description |-> <<"D","i","s","p","l","a","y"," ","u","t","i","l","i","t","i","e","s">>,
     Examples |-> <<>>, Count |-> 0],
    [Name |-> <<"v","i","s","i","b","i","l","i","t","y">>,
     Regex |-> <<"^","(","v","i","s","i","b","l","e","|","i","n","v","i","s","i","b","l","e",")","$">>,
     Description |-> <<"V","i","s","i","b","i","l","i","t","y"," ","u","t","i","l","i","t","i","e","s">>,
     Examples |-> <<>>, Count |-> 0]
  >>

PatternNames(patterns) == {patterns[i].Name : i \in DOMAIN patterns}

\* A faulty addTailwindPatterns that leaves the catalogue out when no pattern
\* was learned; the empty-training property C12 must tell it from the real one.
addTailwindPatternsWhenLearned(patterns) ==
  LET existingNames == PatternNames(patterns)
  IN IF Len(patterns) = 0 THEN patterns
     ELSE patterns \o SelectSeq(tailwindPatterns, LAMBDA p : p.Name \notin existingNames)

\* addTailwindPatterns: the catalogue entries whose name no pattern bears yet
\* are appended, in catalogue order.
addTailwindPatterns(patterns) ==
  LET existingNames == PatternNames(patterns)
  IN patterns \o SelectSeq(tailwindPatterns, LAMBDA p : p.Name \notin existingNames)

\* The loop of Train over the prefix groups named by todo: a group of
\* MinSupport classes or more adds its pattern (nothing when generatePattern
\* returns nil), a smaller one adds its classes to the literals.
\* A faulty loop of Train that already turns a group of two classes into a
\* pattern; the threshold property C6 must tell it from the real one.
RECURSIVE CollectGroupsFromTwo(_, _, _)
CollectGroupsFromTwo(cfg, groups, todo) ==
  IF Len(todo) = 0 THEN cfg
  ELSE LET prefix == Head(todo)
           group == groups[prefix]
           pattern == generatePattern(prefix, group)
       IN CollectGroupsFromTwo(
            IF Len(group) >= 2
            THEN (IF pattern # Nil
                  THEN [cfg EXCEPT !.Patterns = Append(@, pattern)]
                  ELSE cfg)
            ELSE [cfg EXCEPT !.LiteralClasses = @ \o group],
            groups, Tail(todo))

RECURSIVE CollectGroups(_, _, _)
CollectGroups(cfg, groups, todo) ==
  IF Len(todo) = 0 THEN cfg
  ELSE LET prefix == Head(todo)
           group == groups[prefix]
           pattern == generatePattern(prefix, group)
       IN CollectGroups(
            IF Len(group) >= MinSupport
            THEN (IF pattern # Nil
                  THEN [cfg EXCEPT !.Patterns = Append(@, pattern)]
                  ELSE cfg)
            ELSE [cfg EXCEPT !.LiteralClasses = @ \o group],
            groups, Tail(todo))

\* The patterns named by names (ascending), those of one name in any order.
RECURSIVE Arrange(_, _)
Arrange(patterns, names) ==
  IF Len(names) = 0 THEN {<<>>}
  ELSE LET same == {i \in DOMAIN patterns : patterns[i].Name = Head(names)}
           heads == {[k \in DOMAIN o |-> patterns[o[k]]] : o \in Orderings(same)}
           rest == Arrange(patterns, Tail(names))
       IN {h \o r : h \in heads, r \in rest}

\* sort.Slice keyed on Name: it is not stable, so patterns of equal name may
\* come out in either order; every arrangement ascending in Name is returned.
SortByName(patterns) ==
  Arrange(patterns, SortStrings(SetToSeq(PatternNames(patterns))))

\* Train on a Trainer whose config is cfg, given the groups groupByPrefix
\* returned: the configurations it can leave in Trainer.config.  The order in
\* which the groups are visited only fixes the order of the two slices before
\* they are sorted, and the sorts return the same set of results for each.
TrainResults(cfg, groups) ==
  LET collected == CollectGroups(cfg, groups, SetToSeq(DOMAIN groups))
      merged == addTailwindPatterns(collected.Patterns)
  IN {[collected EXCEPT !.Patterns = sorted,
                        !.LiteralClasses = SortStrings(collected.LiteralClasses)] :
        sorted \in SortByName(merged)}

----------------------------------------------------------------------------
(* Configurations handed to validator.New and class names found in markup *)

re_w_num == <<"^","w","-","?","\\","d","+","$">>
re_w_numx == <<"^","w","-","?","(","\\","d","+","|","x",")","$">>
re_unclosed == <<"^","w","-","(","\\","d","+","$">>

HandPattern(name, regex) ==
  [Name |-> name, Regex |-> regex, Description |-> <<>>, Examples |-> <<>>, Count |-> 0]

HandConfig(patterns, literals, ignored) ==
  [Version |-> Version, Patterns |-> patterns, LiteralClasses |-> literals, Ignored |-> ignored]

\* A configuration Train leaves on a fresh Trainer fed the classes of reference.
TrainedConfig(reference) ==
  CHOOSE cfg \in TrainResults(NewTrainer.config, groupByPrefix(SetToSeq(reference))) : TRUE

\* Configurations read from a config file: trained ones, hand-edited ones with
\* an ignored list and overlapping patterns, and ones holding a pattern that
\* does not compile, in first, middle and last position.
Configurations ==
  { TrainedConfig({c_border, c_border_2, c_border_4, c_w_1s2}),
    TrainedConfig({c_w_1, c_w_2, c_w_1s2, c_flex}),
    HandConfig(<<HandPattern(<<"w">>, re_w_num), HandPattern(<<"w","x">>, re_w_numx)>>,
               <<c_flex, c_w_1>>, <<c_w_1, c_zz>>),
    HandConfig(<<>>, <<c_flex>>, <<>>),
    HandConfig(<<HandPattern(<<"a">>, re_unclosed), HandPattern(<<"w">>, re_w_num)>>, <<>>, <<>>),
    HandConfig(<<HandPattern(<<"w">>, re_w_num), HandPattern(<<"w","a">>, re_unclosed),
                 HandPattern(<<"w","x">>, re_w_numx)>>, <<c_flex>>, <<c_zz>>),
    HandConfig(<<HandPattern(<<"w">>, re_w_num), HandPattern(<<"w","x">>, re_unclosed)>>,
               <<>>, <<>>) }

----------------------------------------------------------------------------
(* encoding/json: SaveConfig and LoadConfig *)

\* A JSON document as the decoder sees it once the text is split into tokens:
\* null, a string (its characters as written between the quotes, one unit per
\* character: the character itself or its escape), a number (its digits), an
\* array, an object (its members in the order written), or text that is not
\* JSON at all.
JsonNull == [t |-> "null"]

JsonInvalid == [t |-> "invalid"]

\* How the encoder writes one character of a string: the quote and the
\* backslash behind a backslash, the characters <, > and & as \u00XX (HTML
\* escaping is on in MarshalIndent), any other printable character as it is.
EscapeByte(c) ==
  CASE c = "\"" -> <<"\\", "\"">>
    [] c = "\\" -> <<"\\", "\\">>
    [] c = "<" -> <<"\\", "u", "0", "0", "3", "c">>
    [] c = ">" -> <<"\\", "u", "0", "0", "3", "e">>
    [] c = "&" -> <<"\\", "u", "0", "0", "2", "6">>
    [] OTHER -> <<c>>

HexDigits == <<"0","1","2","3","4","5","6","7","8","9","a","b","c","d","e","f">>

HexValue(h) == (CHOOSE i \in DOMAIN HexDigits : HexDigits[i] = h) - 1

\* What the decoder reads from one unit: the character named by the escape.
UnescapeUnit(u) ==
  IF Len(u) = 1 THEN u[1]
  ELSE IF u[2] = "u"
  THEN Ascii[HexValue(u[3]) * 4096 + HexValue(u[4]) * 256
             + HexValue(u[5]) * 16 + HexValue(u[6]) - 31]
  ELSE u[2]

JsonString(s) == [t |-> "string", units |-> [i \in DOMAIN s |-> EscapeByte(s[i])]]

DecimalDigits == <<"0","1","2","3","4","5","6","7","8","9">>

\* strconv: the decimal digits of a non-negative int.
RECURSIVE FormatInt(_)
FormatInt(n) ==
  IF n < 10 THEN <<DecimalDigits[n + 1]>>
  ELSE Append(FormatInt(n \div 10), DecimalDigits[(n % 10) + 1])

\* The int written by a run of decimal digits.
RECURSIVE ParseInt(_)
ParseInt(digits) ==
  IF Len(digits) = 0 THEN 0
  ELSE ParseInt(SubSeq(digits, 1, Len(digits) - 1)) * 10
       + (CHOOSE i \in DOMAIN DecimalDigits : DecimalDigits[i] = digits[Len(digits)]) - 1

JsonNumber(n) == [t |-> "number", digits |-> FormatInt(n)]

\* A []string: a nil slice is written as null.
JsonStrings(list) ==
  IF Len(list) = 0 THEN JsonNull
  ELSE [t |-> "array", items |-> [i \in DOMAIN list |-> JsonString(list[i])]]

Member(key, value) == [key |-> key, value |-> value]

\* A faulty encoding of a Pattern whose Examples field carries the tag
\* "example", a key the decoder has no field for; the round-trip property C17
\* must tell it from the real one.
JsonPatternTagTypo(pattern) ==
  [t |-> "object",
   members |-> << Member("name", JsonString(pattern.Name)),
                  Member("regex", JsonString(pattern.Regex)),
                  Member("description", JsonString(pattern.Description)),
                  Member("example", JsonStrings(pattern.Examples)),
                  Member("count", JsonNumber(pattern.Count)) >>]

\* A Pattern, its fields in declaration order under their json tags.
JsonPattern(pattern) ==
  [t |-> "object",
   members |-> << Member("name", JsonString(pattern.Name)),
                  Member("regex", JsonString(pattern.Regex)),
                  Member("description", JsonString(pattern.Description)),
                  Member("examples", JsonStrings(pattern.Examples)),
                  Member("count", JsonNumber(pattern.Count)) >>]

\* json.MarshalIndent(t.config, "", "  ")
MarshalIndent(cfg) ==
  [t |-> "object",
   members |-> << Member("version", JsonString(cfg.Version)),
                  Member("patterns",
                         IF Len(cfg.Patterns) = 0 THEN JsonNull
                         ELSE [t |-> "array",
                               items |-> [i \in DOMAIN cfg.Patterns |-> JsonPattern(cfg.Patterns[i])]]),
                  Member("literal_classes", JsonStrings(cfg.LiteralClasses)),
                  Member("ignored", JsonStrings(cfg.Ignored)) >>]

\* The value the decoder stores for the field tagged key: that of the last
\* member written under the key, JsonNull when there is none (the field keeps
\* its zero value, as it does for null).
FieldValue(object, key) ==
  LET at == {i \in DOMAIN object.members : object.members[i].key = key}
  IN IF at = {} THEN JsonNull ELSE object.members[Max(at)].value

\* The document fits a string field.
FitsString(doc) == doc.t \in {"null", "string"}

DecodeString(doc) ==
  IF doc.t = "null" THEN <<>> ELSE [i \in DOMAIN doc.units |-> UnescapeUnit(doc.units[i])]

\* The document fits a []string field.
FitsStrings(doc) ==
  \/ doc.t = "null"
  \/ doc.t = "array" /\ \A i \in DOMAIN doc.items : FitsString(doc.items[i])

DecodeStrings(doc) ==
  IF doc.t = "null" THEN <<>> ELSE [i \in DOMAIN doc.items |-> DecodeString(doc.items[i])]

\* The document fits an int field.
FitsInt(doc) == doc.t \in {"null", "number"}

DecodeInt(doc) == IF doc.t = "null" THEN 0 ELSE ParseInt(doc.digits)

\* The document fits a Pattern.
FitsPattern(doc) ==
  \/ doc.t = "null"
  \/ /\ doc.t = "object"
     /\ FitsString(FieldValue(doc, "name"))
     /\ FitsString(FieldValue(doc, "regex"))
     /\ FitsString(FieldValue(doc, "description"))
     /\ FitsStrings(FieldValue(doc, "examples"))
     /\ FitsInt(FieldValue(doc, "count"))

DecodePattern(doc) ==
  IF doc.t = "null"
  THEN [Name |-> <<>>, Regex |-> <<>>, Description |-> <<>>, Examples |-> <<>>, Count |-> 0]
  ELSE [Name |-> DecodeString(FieldValue(doc, "name")),
        Regex |-> DecodeString(FieldValue(doc, "regex")),
        Description |-> DecodeString(FieldValue(doc, "description")),
        Examples |-> DecodeStrings(FieldValue(doc, "examples")),
        Count |-> DecodeInt(FieldValue(doc, "count"))]

\* The document fits a Config.
FitsConfig(doc) ==
  /\ doc.t = "object"
  /\ FitsString(FieldValue(doc, "version"))
  /\ LET patterns == FieldValue(doc, "patterns")
     IN \/ patterns.t = "null"
        \/ patterns.t = "array" /\ \A i \in DOMAIN patterns.items : FitsPattern(patterns.items[i])
  /\ FitsStrings(FieldValue(doc, "literal_classes"))
  /\ FitsStrings(FieldValue(doc, "ignored"))

\* trainer.LoadConfig on a path whose content is file (Nil: no such file):
\* the pair (*Config, error) it returns.
LoadConfig(file) ==
  IF file = Nil THEN [config |-> Nil, err |-> [readFile |-> TRUE]]
  ELSE IF ~FitsConfig(file) THEN [config |-> Nil, err |-> [unmarshal |-> TRUE]]
  ELSE LET patterns == FieldValue(file, "patterns")
       IN [config |->
             [Version |-> DecodeString(FieldValue(file, "version")),
              Patterns |-> IF patterns.t = "null" THEN <<>>
                           ELSE [i \in DOMAIN patterns.items |-> DecodePattern(patterns.items[i])],
              LiteralClasses |-> DecodeStrings(FieldValue(file, "literal_classes")),
              Ignored |-> DecodeStrings(FieldValue(file, "ignored"))],
           err |-> Nil]

\* A config file whose patterns member is a string, which does not fit the
\* field.
MistypedFile ==
  [t |-> "object",
   members |-> << Member("version", JsonString(Version)),
                  Member("patterns", JsonString(<<"x">>)) >>]

\* The config files a --config path can name: one per configuration, a file
\* that is not JSON and one of the wrong shape.
ConfigFiles == {MarshalIndent(cfg) : cfg \in Configurations} \cup {JsonInvalid, MistypedFile}

\* Class names found in markup.
TargetNames == {c_w_1, c_w_9, c_w_x, c_w_1s2, c_border, c_flex, c_zz}

\* Unseen class names built on the prefix of a stylesheet class: a digit string
\* or a word after it, with and without the hyphen.
DigitSuffixes == {<<"9">>, <<"1","2">>, <<"9","9","9">>}

LetterSuffixes == {<<"x">>, <<"a","b","c">>}

Hyphens == {<<>>, <<"-">>}

ProbeNames ==
  {prefixKey[c] \o h \o s :
     c \in UNION Stylesheets, h \in Hyphens, s \in DigitSuffixes \cup LetterSuffixes}

\* Every class name that occurs in a stylesheet or in markup.
KnownClasses ==
  UNION Stylesheets \cup TargetNames \cup ProbeNames \cup (UNION SpecialSheets)

\* Every pattern text that occurs: the curated catalogue, what generatePattern
\* emits for a group of stylesheet classes, and the hand-written ones.
KnownRegexes ==
  {tailwindPatterns[i].Regex : i \in DOMAIN tailwindPatterns}
  \cup {p.Regex : p \in {generatePattern(prefixKey[CHOOSE c \in G : TRUE], SetToSeq(G)) :
                          G \in {S \in SUBSET UNION Stylesheets :
                                   S # {} /\ \A c, d \in S : prefixKey[c] = prefixKey[d]}}
                         \ {Nil}}
  \cup {p.Regex : p \in {generatePattern(<<"w">>, SetToSeq(G)) :
                          G \in {UNION sheets : sheets \in SUBSET SpecialSheets} \ {{}}}
                         \ {Nil}}
  \cup {re_w_num, re_w_numx, re_unclosed}

\* Package regexp is pure: what it answers for a pattern text never changes.
\* Its answers for the occurring texts are worked out once, by WellFormed and
\* Matches, and looked up afterwards: whether Compile accepts the text, and
\* for each occurring class name whether MatchString reports a match (there
\* is no Regexp to call MatchString on when Compile rejects the text).
Regexps ==
  [re \in KnownRegexes |->
     IF WellFormed(re)
     THEN [compiles |-> TRUE, matches |-> [s \in KnownClasses |-> Matches(re, s)]]
     ELSE [compiles |-> FALSE, matches |-> <<>>]]

\* regexp.Compile(re) returns no error.
Compiles(re) == regexps[re].compiles

\* (*Regexp).MatchString
MatchString(re, s) == regexps[re].matches[s]

----------------------------------------------------------------------------
(* Calls of the trainer *)

Init ==
  /\ classes = NewTrainer.classes
  /\ config = NewTrainer.config
  /\ trains = 0
  /\ prefixGroups = <<>>
  /\ v = Nil
  /\ ret = [op |-> "none"]
  /\ regexps = Regexps
  /\ output = Nil
  /\ loaded = Nil
  /\ calls = 0
  /\ callers = <<>>

\* Trainer.AddClasses
AddClasses ==
  \E sheet \in Stylesheets :
    /\ Cardinality(classes \cup sheet) <= MaxClasses
    /\ classes' = classes \cup sheet
    /\ UNCHANGED <<config, trains, prefixGroups, v, ret, regexps, output, loaded, calls, callers>>

\* Trainer.Train
Train ==
  /\ trains < MaxTrains
  /\ \E groups \in {groupByPrefix(order) : order \in Orderings(classes)} :
       /\ prefixGroups' = groups
       /\ config' \in TrainResults(config, groups)
  /\ trains' = trains + 1
  /\ UNCHANGED <<classes, v, ret, regexps, output, loaded, calls, callers>>

NextTrainer == AddClasses \/ Train

SpecTrainer == Init /\ [][NextTrainer]_vars

----------------------------------------------------------------------------
(* pkg/validator *)

\* A float64 computed as num / den, kept exact.
Ratio(num, den) == [num |-> num, den |-> den]

\* The zero value of a Result field of type float64.
ZeroFloat == Ratio(0, 1)

FloatEq(x, y) == x.num * y.den = y.num * x.den

\* Index of the first pattern, from index i on, that regexp.Compile rejects
\* (0: none).
FirstInvalid(patterns, i) ==
  LET rejected == {k \in i..Len(patterns) : ~Compiles(patterns[k].Regex)}
  IN IF rejected = {} THEN 0 ELSE Min(rejected)

\* A faulty New that drops a pattern regexp.Compile rejects and goes on; the
\* fail-fast property C8 must tell it from the real one.
NewSkipsInvalid(cfg) ==
  LET good == SelectSeq(cfg.Patterns, LAMBDA p : Compiles(p.Regex))
  IN [v |-> [config |-> cfg,
             compiledPatterns |-> [i \in DOMAIN good |-> good[i].Regex],
             literalSet |-> Range(cfg.LiteralClasses),
             ignoredSet |-> Range(cfg.Ignored)],
      err |-> Nil]

\* validator.New: the pair (Validator, error) it returns.
New(cfg) ==
  LET bad == FirstInvalid(cfg.Patterns, 1)
  IN IF bad # 0
     THEN [v |-> Nil, err |-> [invalidPattern |-> cfg.Patterns[bad].Name]]
     ELSE [v |-> [config |-> cfg,
                  compiledPatterns |-> [i \in DOMAIN cfg.Patterns |-> cfg.Patterns[i].Regex],
                  literalSet |-> Range(cfg.LiteralClasses),
                  ignoredSet |-> Range(cfg.Ignored)],
           err |-> Nil]

\* A faulty loop that tries the pattern at index i only; the order property
\* C27 must tell it from the real one.
FirstMatchHeadOnly(compiledPatterns, class, i) ==
  IF i <= Len(compiledPatterns) /\ MatchString(compiledPatterns[i], class) THEN i ELSE 0

\* The loop over compiledPatterns from index i on: the index of the first
\* pattern that matches class, where the loop breaks (0: none matches).
FirstMatch(compiledPatterns, class, i) ==
  LET matching == {k \in i..Len(compiledPatterns) : MatchString(compiledPatterns[k], class)}
  IN IF matching = {} THEN 0 ELSE Min(matching)

\* A faulty Classify that never consults the ignored set; the classification
\* rule C2 must tell it from the real one.
ClassifyWithoutIgnored(val, class) ==
  IF class \in val.literalSet THEN "literal"
  ELSE IF FirstMatch(val.compiledPatterns, class, 1) # 0 THEN "pattern"
  ELSE "orphan"

\* The branch of the loop body of ValidateAgainstPatterns that class takes.
Classify(val, class) ==
  IF class \in val.ignoredSet THEN "ignored"
  ELSE IF class \in val.literalSet THEN "literal"
  ELSE IF FirstMatch(val.compiledPatterns, class, 1) # 0 THEN "pattern"
  ELSE "orphan"

\* Matched / HTMLClasses * 100, left at the zero value when HTMLClasses = 0.
CoveragePercent(matched, htmlClasses) ==
  IF htmlClasses > 0 THEN Ratio(matched * 100, htmlClasses) ELSE ZeroFloat

\* A faulty ValidateAgainstPatterns that adds one to Matched for every rule a
\* class satisfies instead of stopping at the first; the counting property C3
\* must tell it from the real one.
ValidateAgainstPatternsPerRule(val, htmlClasses) ==
  LET hits(class) ==
        (IF class \in val.ignoredSet THEN 1 ELSE 0)
        + (IF class \in val.literalSet THEN 1 ELSE 0)
        + Cardinality({i \in DOMAIN val.compiledPatterns :
                         MatchString(val.compiledPatterns[i], class)})
      orphans == {class \in htmlClasses : hits(class) = 0}
      RECURSIVE Sum(_)
      Sum(S) == IF S = {} THEN 0
                ELSE LET class == CHOOSE c \in S : TRUE IN hits(class) + Sum(S \ {class})
      matched == Sum(htmlClasses)
  IN [HTMLClasses |-> Cardinality(htmlClasses),
      CSSClasses |-> 0,
      Orphans |-> SortStrings(SetToSeq(orphans)),
      Unused |-> <<>>,
      Matched |-> matched,
      OrphanCount |-> Cardinality(orphans),
      UnusedCount |-> 0,
      CoveragePercent |-> CoveragePercent(matched, Cardinality(htmlClasses))]

\* (*Validator).ValidateAgainstPatterns
ValidateAgainstPatterns(val, htmlClasses) ==
  LET branch == [class \in htmlClasses |-> Classify(val, class)]
      orphans == {class \in htmlClasses : branch[class] = "orphan"}
      matched == Cardinality(htmlClasses \ orphans)
  IN [HTMLClasses |-> Cardinality(htmlClasses),
      CSSClasses |-> 0,
      Orphans |-> SortStrings(SetToSeq(orphans)),
      Unused |-> <<>>,
      Matched |-> matched,
      OrphanCount |-> Cardinality(orphans),
      UnusedCount |-> 0,
      CoveragePercent |-> CoveragePercent(matched, Cardinality(htmlClasses))]

\* A faulty ValidateAgainstPatterns that remembers the orphans it reported in
\* the ignored set of its Validator, so as to report each only once; the
\* purity property C15 must tell it from the real one.
ValidateAgainstPatternsCallRemembers(val, htmlClasses) ==
  LET result == ValidateAgainstPatterns(val, htmlClasses)
  IN [v |-> [val EXCEPT !.ignoredSet = @ \cup Range(result.Orphans)],
      html |-> htmlClasses,
      result |-> result]

\* A call v.ValidateAgainstPatterns(htmlClasses) with everything it can reach:
\* the Validator behind the pointer receiver and the target map as the call
\* leaves them (it assigns to neither), and the Result it returns.
ValidateAgainstPatternsCall(val, htmlClasses) ==
  [v |-> val,
   html |-> htmlClasses,
   result |-> ValidateAgainstPatterns(val, htmlClasses)]

\* A faulty ValidateDirectly that counts every target class as matched; the
\* set-algebra property C1 must tell it from the real one.
ValidateDirectlyCountsAll(htmlClasses, cssClasses) ==
  LET orphans == {class \in htmlClasses : class \notin cssClasses}
      unused == {class \in cssClasses : class \notin htmlClasses}
      matched == Cardinality(htmlClasses)
  IN [HTMLClasses |-> Cardinality(htmlClasses),
      CSSClasses |-> Cardinality(cssClasses),
      Orphans |-> SortStrings(SetToSeq(orphans)),
      Unused |-> SortStrings(SetToSeq(unused)),
      Matched |-> matched,
      OrphanCount |-> Cardinality(orphans),
      UnusedCount |-> Cardinality(unused),
      CoveragePercent |-> CoveragePercent(matched, Cardinality(htmlClasses))]

\* ValidateDirectly
ValidateDirectly(htmlClasses, cssClasses) ==
  LET orphans == {class \in htmlClasses : class \notin cssClasses}
      unused == {class \in cssClasses : class \notin htmlClasses}
      matched == Cardinality({class \in htmlClasses : class \in cssClasses})
  IN [HTMLClasses |-> Cardinality(htmlClasses),
      CSSClasses |-> Cardinality(cssClasses),
      Orphans |-> SortStrings(SetToSeq(orphans)),
      Unused |-> SortStrings(SetToSeq(unused)),
      Matched |-> matched,
      OrphanCount |-> Cardinality(orphans),
      UnusedCount |-> Cardinality(unused),
      CoveragePercent |-> CoveragePercent(matched, Cardinality(htmlClasses))]

\* A faulty HasOrphans that overlooks a single orphan; the exit-code property
\* C13 must tell it from the real one.
HasOrphansSeveral(r) == r.OrphanCount > 1

\* (*Result).HasOrphans
HasOrphans(r) == r.OrphanCount > 0

\* A faulty HasUnused that reads the orphan count; the count property C28
\* must tell it from the real one.
HasUnusedReadsOrphans(r) == r.OrphanCount > 0

\* (*Result).HasUnused
HasUnused(r) == r.UnusedCount > 0

----------------------------------------------------------------------------
(* Calls of the validator *)

\* Largest target class set explored.
MaxTarget == 2

Targets == {T \in SUBSET TargetNames : Cardinality(T) <= MaxTarget}

\* Most ValidateAgainstPatterns calls explored on one Validator.
MaxCalls == 2

\* v, err := validator.New(cfg)
NewValidator ==
  \E cfg \in Configurations :
    /\ v' = New(cfg).v
    /\ ret' = [op |-> "New", config |-> cfg, err |-> New(cfg).err]
    /\ calls' = 0
    /\ UNCHANGED <<classes, config, trains, prefixGroups, regexps, output, loaded, callers>>

\* result := v.ValidateAgainstPatterns(htmlClasses): ret records the target
\* map handed over (html), the map as the call left it (after) and the Result.
CallValidateAgainstPatterns ==
  /\ v # Nil
  /\ calls < MaxCalls
  /\ \E htmlClasses \in Targets :
       \E call \in {ValidateAgainstPatternsCall(v, htmlClasses)} :
         /\ v' = call.v
         /\ ret' = [op |-> "ValidateAgainstPatterns", html |-> htmlClasses,
                    after |-> call.html, result |-> call.result]
  /\ calls' = calls + 1
  /\ UNCHANGED <<classes, config, trains, prefixGroups, regexps, output, loaded, callers>>

----------------------------------------------------------------------------
(* cmd/cssguard: the validate command *)

\* Class sets found by the source scan of --src (empty: no --src given).
SrcTargets == {T \in Targets : Cardinality(T) <= 1}

\* What reading the class names of a directory or file returns when it cannot
\* be read: no class and an error.
Unreadable == [classes |-> {}, err |-> [unreadable |-> TRUE]]

\* What reading the class names of a directory or file can return, the sets
\* of Sets being the ones that are there to be found.
ReadOutcomes(Sets) == {[classes |-> T, err |-> Nil] : T \in Sets} \cup {Unreadable}

\* One run of "cssguard validate" with --html and --config given. The command
\* is a process of its own that runs once and exits: it starts with no
\* Validator made and no call returned. Its statements are taken in order,
\* each value bound once: cfg is what trainer.LoadConfig returns for the file
\* at --config, extracted what extractor.ExtractFromDir returns for --html,
\* made what validator.New returns and result what ValidateAgainstPatterns
\* returns (Nil when the process exits before the call). ret records what the
\* process did: err is the error it exited on, classified the set of classes
\* handed to ValidateAgainstPatterns and exit the exit code.
ValidateCmd ==
  /\ v = Nil
  /\ ret.op = "none"
  /\ \E file \in ConfigFiles \cup {output}, extracted \in ReadOutcomes(Targets),
        srcClasses \in SrcTargets, failOnOrphans \in BOOLEAN :
       \E cfg \in {LoadConfig(file)} :
         \E merged \in {IF cfg.err # Nil \/ extracted.err # Nil THEN {}
                        ELSE extracted.classes \cup srcClasses},
            made \in {IF cfg.err # Nil THEN [v |-> Nil, err |-> cfg.err]
                      ELSE IF extracted.err # Nil
                      THEN [v |-> Nil, err |-> extracted.err]
                      ELSE New(cfg.config)} :
           \E result \in {IF made.err # Nil THEN Nil
                          ELSE ValidateAgainstPatterns(made.v, merged)} :
             ret' = [op |-> "validate", file |-> file, config |-> cfg.config,
                     extracted |-> extracted, html |-> merged,
                     fail |-> failOnOrphans, err |-> made.err,
                     classified |-> IF made.err # Nil THEN {} ELSE merged,
                     result |-> result,
                     exit |-> IF made.err # Nil THEN 1
                              ELSE IF failOnOrphans /\ HasOrphans(result) THEN 1
                              ELSE 0]
  /\ UNCHANGED <<classes, config, trains, prefixGroups, v, regexps, output, loaded, calls, callers>>

NextValidator == NewValidator \/ CallValidateAgainstPatterns \/ ValidateCmd

SpecValidator == Init /\ [][NextValidator]_vars

----------------------------------------------------------------------------
(* Calls of ValidateDirectly *)

\* Class names of a markup tree and of a stylesheet compared directly.
DirectNames == {c_w_1, c_w_1s2, c_flex, c_zz}

\* Largest class set handed to ValidateDirectly.
MaxDirect == 2

DirectSets == {T \in SUBSET DirectNames : Cardinality(T) <= MaxDirect}

\* result := validator.ValidateDirectly(htmlClasses, cssClasses)
CallValidateDirectly ==
  /\ \E htmlClasses \in DirectSets, cssClasses \in DirectSets :
       ret' = [op |-> "ValidateDirectly", html |-> htmlClasses, css |-> cssClasses,
               result |-> ValidateDirectly(htmlClasses, cssClasses)]
  /\ UNCHANGED <<classes, config, trains, prefixGroups, v, regexps, output, loaded, calls, callers>>

SpecDirect == Init /\ [][CallValidateDirectly]_vars

----------------------------------------------------------------------------
(* cmd/cssguard: the train and direct commands *)

\* Most paths listed after --css.
MaxPaths == 2

\* What the paths listed after --css return, path by path.
PathLists(outcomes) ==
  UNION {[1..n -> outcomes] : n \in 1..MaxPaths}

\* The classes gathered from the paths that could be read: a path that cannot
\* be stat-ed or parsed is reported and passed over.
Gathered(css) == UNION {css[i].classes : i \in {k \in DOMAIN css : css[k].err = Nil}}

\* The paths that could not be stat-ed or parsed.
ParseErrors(css) == {i \in DOMAIN css : css[i].err # Nil}

\* One run of "cssguard train" with --css given: the stylesheets are parsed,
\* a fresh Trainer is fed their classes and trained, and SaveConfig writes the
\* configuration to --output (saved: os.WriteFile succeeds). The run exits
\* with 1 before training when no class was found, and with 1 when the file
\* cannot be written.
TrainCmd ==
  /\ ret.op = "none"
  /\ trains = 0
  /\ classes = NewTrainer.classes
  /\ \E css \in PathLists(ReadOutcomes(Stylesheets)), saved \in BOOLEAN :
       \E cssClasses \in {Gathered(css)} :
         /\ Cardinality(cssClasses) <= MaxClasses
         /\ IF cssClasses = {}
            THEN /\ ret' = [op |-> "train", css |-> css, trained |-> FALSE,
                            saved |-> FALSE, exit |-> 1]
                 /\ UNCHANGED <<classes, config, trains, prefixGroups, output>>
            ELSE /\ classes' = cssClasses
                 /\ \E groups \in {groupByPrefix(order) : order \in Orderings(cssClasses)} :
                      /\ prefixGroups' = groups
                      /\ config' \in TrainResults(NewTrainer.config, groups)
                 /\ trains' = 1
                 /\ output' = IF saved THEN MarshalIndent(config') ELSE output
                 /\ ret' = [op |-> "train", css |-> css, trained |-> TRUE,
                            saved |-> saved, exit |-> IF saved THEN 0 ELSE 1]
  /\ UNCHANGED <<v, regexps, loaded, calls, callers>>

\* One run of "cssguard direct" with --html and --css given: the markup is
\* read (the run exits with 1 when it cannot be), the classes of --src are
\* merged in, the stylesheets are parsed (a path that cannot be is reported as
\* a warning) and ValidateDirectly compares the two sets.
DirectCmd ==
  /\ ret.op = "none"
  /\ \E extracted \in ReadOutcomes(DirectSets),
        srcClasses \in {T \in DirectSets : Cardinality(T) <= 1},
        css \in PathLists(ReadOutcomes({T \in DirectSets : Cardinality(T) <= 1})),
        failOnOrphans \in BOOLEAN :
       \E merged \in {IF extracted.err # Nil THEN {} ELSE extracted.classes \cup srcClasses} :
         \E result \in {IF extracted.err # Nil THEN Nil
                        ELSE ValidateDirectly(merged, Gathered(css))} :
           ret' = [op |-> "direct", extracted |-> extracted, css |-> css,
                   html |-> merged, fail |-> failOnOrphans, err |-> extracted.err,
                   result |-> result,
                   exit |-> IF extracted.err # Nil THEN 1
                            ELSE IF failOnOrphans /\ HasOrphans(result) THEN 1
                            ELSE 0]
  /\ UNCHANGED <<classes, config, trains, prefixGroups, v, regexps, output, loaded, calls, callers>>

NextCommands == TrainCmd \/ ValidateCmd \/ DirectCmd

SpecCommands == Init /\ [][NextCommands]_vars

----------------------------------------------------------------------------
(* float64: the share float64(covered)/float64(len)*100 of redundancyCmd *)

\* Binary digits of the significand of a float64.
Precision == 53

\* The natural number written by binary digits, most significant first.
RECURSIVE Natural(_)
Natural(digits) ==
  IF Len(digits) = 0 THEN 0
  ELSE 2 * Natural(SubSeq(digits, 1, Len(digits) - 1)) + digits[Len(digits)]

\* The digits of the number one above the one written by digits: the last 0
\* becomes 1 and the 1s after it 0; a number of 1s only gets one digit longer.
Increment(digits) ==
  LET zeros == {i \in DOMAIN digits : digits[i] = 0}
  IN IF zeros = {} THEN <<1>> \o [i \in DOMAIN digits |-> 0]
     ELSE [i \in DOMAIN digits |->
             IF i < Max(zeros) THEN digits[i] ELSE IF i = Max(zeros) THEN 1 ELSE 0]

\* The float64 nearest to digits * 2^exp, ties to the even significand, where
\* digits starts with 1 and has more than Precision digits, and sticky tells
\* that the exact value lies above digits * 2^exp: its significand, Precision
\* digits, and its exponent.
RoundToEven(digits, sticky, exp) ==
  LET kept == SubSeq(digits, 1, Precision)
      dropped == SubSeq(digits, Precision + 1, Len(digits))
      above == sticky \/ \E i \in 2..Len(dropped) : dropped[i] = 1
      up == dropped[1] = 1 /\ (above \/ kept[Precision] = 1)
      raised == Increment(kept)
  IN IF ~up THEN [sig |-> kept, exp |-> exp + Len(dropped)]
     ELSE IF Len(raised) = Precision THEN [sig |-> raised, exp |-> exp + Len(dropped)]
     ELSE [sig |-> SubSeq(raised, 1, Precision), exp |-> exp + Len(dropped) + 1]

\* The smallest k with c * 2^k >= n, for c > 0.
RECURSIVE Shift(_, _)
Shift(c, n) == IF c >= n THEN 0 ELSE 1 + Shift(2 * c, n)

\* 2^e modulo n.
RECURSIVE PowerOfTwoMod(_, _)
PowerOfTwoMod(e, n) ==
  IF e = 0 THEN 1 % n
  ELSE LET half == PowerOfTwoMod(e \div 2, n)
       IN (half * half * (IF e % 2 = 1 THEN 2 ELSE 1)) % n

\* What is left of r * 2^i after taking out the multiples of n.
Remainder(r, n, i) == (r * PowerOfTwoMod(i, n)) % n

\* The first count binary digits of r / n after the point, for r < n.
DivisionDigits(r, n, count) ==
  [i \in 1..count |-> IF 2 * Remainder(r, n, i - 1) >= n THEN 1 ELSE 0]

\* float64(c) / float64(n) for 0 < c <= n: the exact quotient, worked out to
\* one digit more than fits, rounded.
Quotient(c, n) ==
  LET k == Shift(c, n)
      r == c * (2 ^ k) - n
  IN RoundToEven(<<1>> \o DivisionDigits(r, n, Precision),
                 Remainder(r, n, Precision) # 0, 0 - k - Precision)

\* The digits taken eight at a time, each group as a number, after as many
\* leading zeros as make the groups full.
Groups(digits) ==
  LET pad == (8 - (Len(digits) % 8)) % 8
      padded == [i \in 1..pad |-> 0] \o digits
  IN [g \in 1..(Len(padded) \div 8) |-> Natural(SubSeq(padded, 8 * (g - 1) + 1, 8 * g))]

\* groups * m + carry for a natural number m below 256, in groups.
RECURSIVE TimesSmall(_, _, _)
TimesSmall(groups, m, carry) ==
  IF Len(groups) = 0 THEN <<carry>>
  ELSE LET t == groups[Len(groups)] * m + carry
       IN Append(TimesSmall(SubSeq(groups, 1, Len(groups) - 1), m, t \div 256), t % 256)

\* The digits the groups stand for, without leading zeros.
Digits(groups) ==
  LET all == [i \in 1..(8 * Len(groups)) |->
                (groups[((i - 1) \div 8) + 1] \div (2 ^ (7 - ((i - 1) % 8)))) % 2]
      first == Min({i \in DOMAIN all : all[i] = 1})
  IN SubSeq(all, first, Len(all))

\* x * 100 for a float64 x > 0: the exact product, rounded.
TimesHundred(x) == RoundToEven(Digits(TimesSmall(Groups(x.sig), 100, 0)), FALSE, x.exp)

\* The largest integer not above the float64 x, for 0 < x < 2^Precision.
Floor(x) ==
  IF Precision + x.exp <= 0 THEN 0 ELSE Natural(SubSeq(x.sig, 1, Precision + x.exp))

\* float64(covered)/float64(len)*100 >= threshold, for 0 <= covered <= len,
\* len > 0 and a threshold that is a whole number.
ShareAtLeast(covered, len, threshold) ==
  IF covered = 0 THEN 0 >= threshold
  ELSE Floor(TimesHundred(Quotient(covered, len))) >= threshold

----------------------------------------------------------------------------
(* cmd/cssguard: the redundancy command *)

\* Most paths listed after --css of the redundancy command.
MaxFiles == 2

\* The stylesheets there are to compare, by path: the classes of each (by
\* number: the comparison only asks which classes two files share), or that
\* it cannot be read.
CssFiles ==
  [a |-> [classes |-> 1..50, err |-> Nil],
   b |-> [classes |-> 1..29, err |-> Nil],
   copy |-> [classes |-> 1..50, err |-> Nil],
   main |-> [classes |-> 1..5, err |-> Nil],
   vendor |-> [classes |-> 1..4, err |-> Nil],
   other |-> [classes |-> 51..52, err |-> Nil],
   empty |-> [classes |-> {}, err |-> Nil],
   missing |-> Unreadable]

\* Values given to --threshold (80 when the flag is left out).
Thresholds == {58, 80, 100}

\* fileClasses: the classes of every listed path that could be read, by path
\* (a path listed twice is one key).
FileClasses(paths) ==
  [path \in {paths[i] : i \in {k \in DOMAIN paths : CssFiles[paths[k]].err = Nil}} |->
     CssFiles[path].classes]

\* The float64 float64(covered)/float64(len)*100, 0 when nothing is covered.
Share(covered, len) ==
  IF covered = 0 THEN [sig |-> [i \in 1..Precision |-> 0], exp |-> 0]
  ELSE TimesHundred(Quotient(covered, len))

\* The FilePair of two files.
FilePair(f1, f2, fileClasses) ==
  LET c1 == fileClasses[f1]
      c2 == fileClasses[f2]
      overlap == Cardinality(c1 \cap c2)
      smaller == IF Cardinality(c2) < Cardinality(c1) THEN Cardinality(c2) ELSE Cardinality(c1)
  IN [File1 |-> f1,
      File2 |-> f2,
      Overlap |-> overlap,
      File1Only |-> Cardinality(c1) - overlap,
      File2Only |-> Cardinality(c2) - overlap,
      Coverage |-> IF smaller > 0 THEN Share(overlap, smaller) ELSE Share(0, 1)]

\* pairs: one FilePair for every i < j of pathList, in the order of the two
\* loops.
RECURSIVE FilePairs(_, _)
FilePairs(pathList, fileClasses) ==
  IF Len(pathList) < 2 THEN <<>>
  ELSE [j \in 1..(Len(pathList) - 1) |-> FilePair(pathList[1], pathList[j + 1], fileClasses)]
       \o FilePairs(Tail(pathList), fileClasses)

\* What one pair adds to removable: File1 when it is covered by File2, then
\* File2 when it is covered by File1. An entry is the text
\* "<file> (<share>% covered by <by>)", kept here as the two paths.
RemovableOf(pair, fileClasses, threshold) ==
  LET c1 == fileClasses[pair.File1]
      c2 == fileClasses[pair.File2]
      covered1 == Cardinality({c \in c1 : c \in c2})
      covered2 == Cardinality({c \in c2 : c \in c1})
  IN (IF Cardinality(c1) > 0 /\ ShareAtLeast(covered1, Cardinality(c1), threshold)
      THEN <<[file |-> pair.File1, by |-> pair.File2]>> ELSE <<>>)
     \o (IF Cardinality(c2) > 0 /\ ShareAtLeast(covered2, Cardinality(c2), threshold)
         THEN <<[file |-> pair.File2, by |-> pair.File1]>> ELSE <<>>)

\* removable: what the pairs add, pair after pair.
RECURSIVE Removable(_, _, _)
Removable(pairs, fileClasses, threshold) ==
  IF Len(pairs) = 0 THEN <<>>
  ELSE RemovableOf(pairs[1], fileClasses, threshold)
       \o Removable(Tail(pairs), fileClasses, threshold)

\* One run of "cssguard redundancy". paths is what --css lists (nothing: the
\* flag is missing); the run exits with 1 when it lists fewer than 2 paths.
\* A path that cannot be read is reported and passed over; pathList takes the
\* others in the iteration order of the fileClasses map.
RedundancyCmd ==
  /\ ret.op = "none"
  /\ \E paths \in UNION {[1..n -> DOMAIN CssFiles] : n \in 0..MaxFiles}, threshold \in Thresholds :
       IF Len(paths) < 2
       THEN ret' = [op |-> "redundancy", paths |-> paths, threshold |-> threshold, exit |-> 1]
       ELSE \E fileClasses \in {FileClasses(paths)} :
              \E pathList \in Orderings(DOMAIN fileClasses) :
                \E pairs \in {FilePairs(pathList, fileClasses)} :
                  ret' = [op |-> "redundancy", paths |-> paths, threshold |-> threshold,
                          exit |-> 0,
                          pathList |-> pathList,
                          TotalFiles |-> Cardinality(DOMAIN fileClasses),
                          TotalClasses |-> Cardinality(UNION {fileClasses[f] : f \in DOMAIN fileClasses}),
                          RedundantCount |->
                            Cardinality({c \in UNION {fileClasses[f] : f \in DOMAIN fileClasses} :
                                           Cardinality({f \in DOMAIN fileClasses : c \in fileClasses[f]}) > 1}),
                          Pairs |-> pairs,
                          Removable |-> Removable(pairs, fileClasses, threshold)]
  /\ UNCHANGED <<classes, config, trains, prefixGroups, v, regexps, output, loaded, calls, callers>>

SpecRedundancy == Init /\ [][RedundancyCmd]_vars

----------------------------------------------------------------------------
(* srcscan: scanFile and extractTokens *)

\* The characters a quoted value starts and ends with (the quote characters
\* go by their names, as in Ascii).
Quotes == {"dquote", "squote"}

\* strings.Contains
Contains(s, sub) ==
  \E i \in 1..(Len(s) - Len(sub) + 1) : SubSeq(s, i, i + Len(sub) - 1) = sub

\* p is written in s from position i on.
HasPrefixAt(s, i, p) ==
  i + Len(p) - 1 <= Len(s) /\ SubSeq(s, i, i + Len(p) - 1) = p

\* \s* from position i: the first position from i on that holds no white
\* space (the lines scanned here hold no other white space than the space).
SkipSpaces(s, i) ==
  Min({j \in i..(Len(s) + 1) : IF j = Len(s) + 1 THEN TRUE ELSE s[j] # " "})

\* ["']([^"']+)["'] at position i: the captured text and the position of the
\* closing quote, Nil when it does not match there. The capture is the run of
\* characters up to the next quote of either kind, and is not empty.
QuotedAt(s, i) ==
  IF i > Len(s) THEN Nil
  ELSE IF s[i] \notin Quotes THEN Nil
  ELSE LET close == Min({j \in (i + 1)..(Len(s) + 1) :
                           IF j = Len(s) + 1 THEN TRUE ELSE s[j] \in Quotes})
       IN IF close <= Len(s) /\ close > i + 1
          THEN [value |-> SubSeq(s, i + 1, close - 1), end |-> close]
          ELSE Nil

\* \s*<sign>\s*["']([^"']+)["'] at position i.
SignQuotedAt(s, i, sign) ==
  LET at == SkipSpaces(s, i)
  IN IF at > Len(s) THEN Nil
     ELSE IF s[at] # sign THEN Nil
     ELSE QuotedAt(s, SkipSpaces(s, at + 1))

\* (?:name1|name2|...)\s*<sign>\s*["']([^"']+)["'] at position i: the match
\* with the first of the names that gives one.
MatchAt(s, i, names, sign) ==
  LET fits == {k \in DOMAIN names :
                 /\ HasPrefixAt(s, i, names[k])
                 /\ SignQuotedAt(s, i + Len(names[k]), sign) # Nil}
  IN IF fits = {} THEN Nil ELSE SignQuotedAt(s, i + Len(names[Min(fits)]), sign)

\* FindAllStringSubmatch(line, -1), the captured text of each match: the
\* leftmost match from position from on, then the matches after its end.
RECURSIVE FindAllStringSubmatch(_, _, _, _)
FindAllStringSubmatch(s, from, names, sign) ==
  LET starts == {i \in from..Len(s) : MatchAt(s, i, names, sign) # Nil}
  IN IF starts = {} THEN <<>>
     ELSE LET match == MatchAt(s, Min(starts), names, sign)
          IN <<match.value>> \o FindAllStringSubmatch(s, match.end + 1, names, sign)

\* The names of classAttrRegex, (?:class|className)\s*=\s*["']([^"']+)["']
classAttrNames == <<<<"c","l","a","s","s">>, <<"c","l","a","s","s","N","a","m","e">>>>

\* The names of helperRegex,
\* (?:clsx|classnames|twMerge|cva|cn)\s*\(\s*["']([^"']+)["']
helperNames == <<<<"c","l","s","x">>, <<"c","l","a","s","s","n","a","m","e","s">>, <<"t","w","M","e","r","g","e">>, <<"c","v","a">>, <<"c","n">>>>

\* classTokenRegex, ^[A-Za-z0-9:_\-\[\]/#%.]+$
classTokenRegex(token) ==
  /\ Len(token) > 0
  /\ \A i \in DOMAIN token :
       \/ IsAlpha(token[i])
       \/ IsDigit(token[i])
       \/ token[i] \in {":", "_", "-", "[", "]", "/", "#", "%", "."}

\* strings.Fields: the runs of characters between the white space.
Fields(s) ==
  {SubSeq(s, a, b) : <<a, b>> \in
     {w \in (DOMAIN s) \X (DOMAIN s) :
        /\ w[1] <= w[2]
        /\ \A i \in w[1]..w[2] : s[i] # " "
        /\ IF w[1] = 1 THEN TRUE ELSE s[w[1] - 1] = " "
        /\ IF w[2] = Len(s) THEN TRUE ELSE s[w[2] + 1] = " "}}

\* Longest token kept, in bytes.
MaxTokenLen == 128

\* A faulty extractTokens without the length limit; the filter property C29
\* must tell it from the real one.
extractTokensAnyLength(s) ==
  {token \in Fields(s) : classTokenRegex(token)}

\* extractTokens: the tokens of s that are added to the set.
extractTokens(s) ==
  {token \in Fields(s) : Len(token) <= MaxTokenLen /\ classTokenRegex(token)}

\* extractTokens(s, set): the map as the call leaves it.
extractTokensInto(s, set) == set \cup extractTokens(s)

\* The captured value holds an interpolation marker.
Interpolated(value) == Contains(value, <<"$", "{">>) \/ Contains(value, <<"backtick", " ", "+">>)

\* A faulty scan of a line that harvests every captured value, interpolated
\* or not; the harvesting property C20 must tell it from the real one.
ScanLineKeepsInterpolated(line) ==
  LET attrs == FindAllStringSubmatch(line, 1, classAttrNames, "=")
      helpers == FindAllStringSubmatch(line, 1, helperNames, "(")
  IN UNION {extractTokens(value) : value \in Range(attrs) \cup Range(helpers)}

\* The body of the loop of scanFile: what one line adds to the set.
ScanLine(line) ==
  LET attrs == FindAllStringSubmatch(line, 1, classAttrNames, "=")
      helpers == FindAllStringSubmatch(line, 1, helperNames, "(")
  IN UNION {extractTokens(value) :
              value \in {val \in Range(attrs) \cup Range(helpers) : ~Interpolated(val)}}

\* (*Scanner).scanFile on a path: what os.Open returns for it (the lines of
\* the file, or an error) decides what the scan returns.
scanFile(opened) ==
  IF opened.err # Nil THEN [classes |-> {}, err |-> opened.err]
  ELSE [classes |-> UNION {ScanLine(opened.lines[i]) : i \in DOMAIN opened.lines},
        err |-> Nil]

\* Most lines of a scanned file.
MaxLines == 2

\* Class strings written in the source files.
v_ab == <<"a"," ","b">>
v_c == <<"c">>
v_d == <<"d">>
v_interp == <<"a"," ","$","{","b","}"," ","c">>

\* An argument of a helper call: a string literal, or a literal behind a
\* condition.
Literal(value) == [kind |-> "literal", value |-> value]

Conditional(value) == [kind |-> "conditional", value |-> value]

\* What the lines of the source files say: a class attribute, a helper call
\* inside a className expression, or a template literal.
Attributes ==
  {[kind |-> "attribute", name |-> n, quote |-> q, gap |-> <<>>, value |-> v_ab] :
     n \in Range(classAttrNames), q \in Quotes}
  \cup {[kind |-> "attribute", name |-> n, quote |-> "dquote", gap |-> <<>>, value |-> v_interp] :
          n \in Range(classAttrNames)}
  \cup {[kind |-> "attribute", name |-> classAttrNames[1], quote |-> "squote", gap |-> <<" ">>,
         value |-> v_d]}

HelperCalls ==
  {[kind |-> "helper", name |-> h, args |-> args] :
     h \in Range(helperNames),
     args \in {<<Literal(v_ab), Conditional(v_c)>>, <<Conditional(v_c), Literal(v_d)>>}}
  \cup {[kind |-> "helper", name |-> helperNames[1], args |-> <<Literal(v_interp)>>]}

Templates == {[kind |-> "template", value |-> v_interp]}

Statements == Attributes \cup HelperCalls \cup Templates

\* The text of an argument.
RenderArg(arg) ==
  IF arg.kind = "literal" THEN <<"dquote">> \o arg.value \o <<"dquote">>
  ELSE <<"c","o","n","d"," ","&","&"," ","dquote">> \o arg.value \o <<"dquote">>

\* The text of a line.
Render(statement) ==
  CASE statement.kind = "attribute" ->
         <<"<","p"," ">> \o statement.name \o statement.gap \o <<"=">> \o statement.gap
         \o <<statement.quote>> \o statement.value \o <<statement.quote>> \o <<">">>
    [] statement.kind = "helper" ->
         <<"<","p"," ","c","l","a","s","s","N","a","m","e","=","{">> \o statement.name \o <<"(">>
         \o RenderArg(statement.args[1])
         \o (IF Len(statement.args) > 1
             THEN <<",", " ">> \o RenderArg(statement.args[2]) ELSE <<>>)
         \o <<")","}",">">>
    [] OTHER ->
         <<"<","p"," ","c","l","a","s","s","N","a","m","e","=","{","backtick">> \o statement.value \o <<"backtick","}",">">>

\* The source files scanned: up to MaxLines lines.
SourceFiles == UNION {[1..n -> Statements] : n \in 0..MaxLines}

\* classes, err := s.scanFile(path)
CallScanFile ==
  /\ ret.op = "none"
  /\ \E file \in SourceFiles, err \in {Nil, [open |-> TRUE]} :
       \E opened \in {[lines |-> [i \in DOMAIN file |-> Render(file[i])], err |-> err]} :
         ret' = [op |-> "scanFile", file |-> file, lines |-> opened.lines,
                 classes |-> scanFile(opened).classes, err |-> scanFile(opened).err]
  /\ UNCHANGED <<classes, config, trains, prefixGroups, v, regexps, output, loaded, calls, callers>>

SpecScan == Init /\ [][CallScanFile]_vars

----------------------------------------------------------------------------
(* srcscan: extractTokens *)

\* A token of n letters.
LongToken(n) == [i \in 1..n |-> "a"]

\* Class strings handed to extractTokens: plain tokens, runs of spaces, every
\* allowed punctuation character, characters that are not allowed, and tokens
\* at and just over the length limit.
ClassStrings ==
  { <<>>, <<" ">>, <<"a"," ","b">>, <<" "," ","a"," "," "," ","b"," ">>,
    <<"a","!","b"," ","c">>, <<"a","(","b">>, <<"a",",","b">>, <<"@","x"," ","a">>,
    <<"a","{","b","}">>, <<"a"," ","a">>,
    <<"m","d",":","p","-","4"," ","w","-","[","1","0","p","x","]"," ",
      "w","-","1","/","2"," ","#","x"," ","5","0","%"," ","a",".","b"," ","_","X","9">>,
    LongToken(MaxTokenLen),
    LongToken(MaxTokenLen + 1) \o <<" ","b">>,
    <<"b"," ">> \o LongToken(MaxTokenLen) \o <<" ">> \o LongToken(MaxTokenLen + 1) }

\* Entries the map can hold before the call: tokens of earlier calls.
EarlierTokens == {<<"a">>, <<"z">>, <<"w","-","1","/","2">>, LongToken(MaxTokenLen)}

\* extractTokens(s, classes) on a map holding the entries before.
CallExtractTokens ==
  /\ ret.op = "none"
  /\ \E s \in ClassStrings, before \in SUBSET EarlierTokens :
       ret' = [op |-> "extractTokens", s |-> s, before |-> before,
               classes |-> extractTokensInto(s, before)]
  /\ UNCHANGED <<classes, config, trains, prefixGroups, v, regexps, output, loaded, calls, callers>>

SpecTokens == Init /\ [][CallExtractTokens]_vars

----------------------------------------------------------------------------
(* srcscan: scanDir *)

\* strings.ToLower on the characters of Ascii.
ToLower(s) ==
  [i \in DOMAIN s |-> IF Ord[s[i]] >= 65 /\ Ord[s[i]] <= 90 THEN Ascii[Ord[s[i]] + 1] ELSE s[i]]

\* filepath.Ext: the suffix of a file name from its last dot on, nothing when
\* the name holds no dot.
Ext(name) ==
  LET dots == {i \in DOMAIN name : name[i] = "."}
  IN IF dots = {} THEN <<>> ELSE SubSeq(name, Max(dots), Len(name))

\* Most files in a scanned directory tree.
MaxTreeFiles == 2

\* The files there can be below a scanned directory: the directories that
\* lead to the file from the scanned one, its name, its lines, and whether it
\* can be opened.
TreeFiles ==
  {[dirs |-> d, name |-> n.name \o e, lines |-> <<Render(n.statement)>>, readable |-> TRUE] :
     d \in {<<>>, <<"src">>, <<"node_modules">>, <<"src", "node_modules", "lib">>},
     n \in {[name |-> <<"c">>,
             statement |-> [kind |-> "attribute", name |-> classAttrNames[2],
                            quote |-> "dquote", gap |-> <<>>, value |-> v_c]],
            [name |-> <<"d">>,
             statement |-> [kind |-> "attribute", name |-> classAttrNames[1],
                            quote |-> "squote", gap |-> <<>>, value |-> v_d]]},
     e \in {<<".","t","s","x">>, <<".","T","S","X">>, <<".","c","s","s">>}}
  \cup {[dirs |-> <<"src">>, name |-> <<"a","b",".","t","s","x">>,
         lines |-> <<Render([kind |-> "attribute", name |-> classAttrNames[1],
                             quote |-> "dquote", gap |-> <<>>, value |-> v_ab])>>,
         readable |-> FALSE]}

\* The directory trees scanned.
Trees == {T \in SUBSET TreeFiles : Cardinality(T) <= MaxTreeFiles}

\* The Options of a Scanner: the values of --src-ext and --src-exclude after
\* ParseExtensions and ParseExcludes.
ScanOptions ==
  {[Extensions |-> x, Excludes |-> y] :
     x \in {<<<<".","t","s","x">>>>, <<<<".","T","S","X">>>>},
     y \in {<<"node_modules">>, <<"dist", "lib">>}}

\* The callback of scanDir on a file: nothing when its extension, in lower
\* case, is none of the Extensions or when scanFile fails, the classes
\* scanFile returns otherwise.
ScanEntry(opts, file) ==
  IF ToLower(Ext(file.name)) \notin Range(opts.Extensions) THEN {}
  ELSE LET scanned == scanFile([lines |-> file.lines,
                                err |-> IF file.readable THEN Nil ELSE [open |-> TRUE]])
       IN IF scanned.err # Nil THEN {} ELSE scanned.classes

\* filepath.Walk with the callback of scanDir, from the directory called name
\* that dirs leads to: the directory is left out with all below it when its
\* name is one of the Excludes (filepath.SkipDir); otherwise its files are
\* scanned and its subdirectories walked.
RECURSIVE Walk(_, _, _, _)
Walk(opts, name, dirs, tree) ==
  IF name \in Range(opts.Excludes) THEN {}
  ELSE LET here == {file \in tree : file.dirs = dirs}
           below == {file \in tree :
                       /\ Len(file.dirs) > Len(dirs)
                       /\ SubSeq(file.dirs, 1, Len(dirs)) = dirs}
           subdirs == {file.dirs[Len(dirs) + 1] : file \in below}
       IN UNION {ScanEntry(opts, file) : file \in here}
          \cup UNION {Walk(opts, sub, Append(dirs, sub), tree) : sub \in subdirs}

\* (*Scanner).scanDir on the directory called root that holds tree.
scanDir(opts, root, tree) == [classes |-> Walk(opts, root, <<>>, tree), err |-> Nil]

\* classes, err := s.scanDir(dir)
CallScanDir ==
  /\ ret.op = "none"
  /\ \E opts \in ScanOptions, root \in {"proj", "node_modules"}, tree \in Trees :
       ret' = [op |-> "scanDir", opts |-> opts, root |-> root, tree |-> tree,
               classes |-> scanDir(opts, root, tree).classes,
               err |-> scanDir(opts, root, tree).err]
  /\ UNCHANGED <<classes, config, trains, prefixGroups, v, regexps, output, loaded, calls, callers>>

SpecScanDir == Init /\ [][CallScanDir]_vars

----------------------------------------------------------------------------
(* srcscan: ScanPaths *)

\* Most paths handed to ScanPaths.
MaxScanPaths == 2

\* What there can be at a path: nothing, a file (any extension) that can or
\* cannot be opened, or a directory holding a tree.
PathEntries ==
  {[kind |-> "missing"]}
  \cup {[kind |-> "file", lines |-> <<Render(statement)>>, readable |-> r] :
          statement \in {[kind |-> "attribute", name |-> classAttrNames[1],
                          quote |-> "dquote", gap |-> <<>>, value |-> v_ab]},
          r \in BOOLEAN}
  \cup {[kind |-> "dir", name |-> n, tree |-> {file}] :
          n \in {"proj", "node_modules"},
          file \in {f \in TreeFiles :
                      /\ f.dirs \in {<<>>, <<"src">>}
                      /\ Ext(f.name) = <<".","t","s","x">>
                      /\ f.name # <<"d",".","t","s","x">>}}

ScanPathLists == UNION {[1..n -> PathEntries] : n \in 0..MaxScanPaths}

\* One turn of the loop of ScanPaths on what the scan of the path returned:
\* skip is set where the loop continues without adding anything, which it
\* does on a file (not a directory) whose scan failed.
Turn(scanned, isDir) ==
  IF ~isDir /\ scanned.err # Nil THEN [skip |-> TRUE, classes |-> {}, err |-> Nil]
  ELSE [skip |-> FALSE, classes |-> scanned.classes, err |-> scanned.err]

\* The body of the loop of ScanPaths for one path: a path os.Stat fails on is
\* skipped, a directory goes to scanDir and a file to scanFile.
ScanPath(opts, path) ==
  IF path.kind = "missing" THEN [skip |-> TRUE, classes |-> {}, err |-> Nil]
  ELSE IF path.kind = "dir" THEN Turn(scanDir(opts, path.name, path.tree), TRUE)
  ELSE Turn(scanFile([lines |-> path.lines,
                      err |-> IF path.readable THEN Nil ELSE [open |-> TRUE]]), FALSE)

\* A faulty ScanPaths that stops at the first path it has to skip; the
\* tolerance property C30 must tell it from the real one.
ScanPathsStopsAtSkip(opts, paths) ==
  LET turn == [i \in DOMAIN paths |-> ScanPath(opts, paths[i])]
      skipped == {i \in DOMAIN paths : turn[i].skip}
      last == IF skipped = {} THEN Len(paths) ELSE Min(skipped) - 1
  IN [classes |-> UNION {turn[i].classes : i \in 1..last}, err |-> Nil]

\* (*Scanner).ScanPaths: the error of the first directory scan that fails,
\* otherwise the classes of every path that was not skipped.
ScanPaths(opts, paths) ==
  LET turn == [i \in DOMAIN paths |-> ScanPath(opts, paths[i])]
      failed == {i \in DOMAIN paths : turn[i].err # Nil}
  IN IF failed # {} THEN [classes |-> {}, err |-> turn[Min(failed)].err]
     ELSE [classes |-> UNION {turn[i].classes : i \in DOMAIN paths}, err |-> Nil]

\* classes, err := s.ScanPaths(paths)
CallScanPaths ==
  /\ ret.op = "none"
  /\ \E opts \in ScanOptions, paths \in ScanPathLists :
       \E returned \in {ScanPaths(opts, paths)} :
         ret' = [op |-> "ScanPaths", opts |-> opts, paths |-> paths,
                 classes |-> returned.classes, err |-> returned.err]
  /\ UNCHANGED <<classes, config, trains, prefixGroups, v, regexps, output, loaded, calls, callers>>

SpecScanPaths == Init /\ [][CallScanPaths]_vars

----------------------------------------------------------------------------
(* pkg/trainer: groupByPrefix *)

\* groupByPrefix on a Trainer holding cssClasses, ranging over the map in
\* some order.
CallGroupByPrefix ==
  /\ ret.op = "none"
  /\ \E cssClasses \in SUBSET GroupTokens :
       /\ Cardinality(cssClasses) \in 1..MaxGroupTokens
       /\ \E order \in Orderings(cssClasses) :
            ret' = [op |-> "groupByPrefix", classes |-> cssClasses,
                    groups |-> groupByPrefix(order)]
  /\ UNCHANGED <<classes, config, trains, prefixGroups, v, regexps, output, loaded, calls, callers>>

SpecGroups == Init /\ [][CallGroupByPrefix]_vars

----------------------------------------------------------------------------
(* pkg/trainer: one Train on a large family *)

\* Trainer.AddClasses with the sheets of the large family, before Train.
AddFamilyClasses ==
  /\ trains = 0
  /\ \E sheet \in FamilySheets :
       /\ Cardinality(classes \cup sheet) <= MaxFamily
       /\ classes' = classes \cup sheet
  /\ UNCHANGED <<config, trains, prefixGroups, v, ret, regexps, output, loaded, calls, callers>>

\* Trainer.Train, the first call on the Trainer.
TrainFirst ==
  /\ trains = 0
  /\ \E groups \in {groupByPrefix(order) : order \in Orderings(classes)} :
       /\ prefixGroups' = groups
       /\ config' \in TrainResults(config, groups)
  /\ trains' = trains + 1
  /\ UNCHANGED <<classes, v, ret, regexps, output, loaded, calls, callers>>

NextFamily == AddFamilyClasses \/ TrainFirst

SpecFamily == Init /\ [][NextFamily]_vars

----------------------------------------------------------------------------
(* pkg/trainer and validator: training on class names with metacharacters *)

\* Trainer.AddClasses with the sheets of class names holding metacharacters,
\* before Train.
AddSpecialClasses ==
  /\ trains = 0
  /\ \E sheet \in SpecialSheets :
       /\ Cardinality(classes \cup sheet) <= MaxSpecial
       /\ classes' = classes \cup sheet
  /\ UNCHANGED <<config, trains, prefixGroups, v, ret, regexps, output, loaded, calls, callers>>

\* validator.New on the Config Train returned.
NewTrained ==
  /\ trains = 1
  /\ ret.op = "none"
  /\ v' = New(config).v
  /\ ret' = [op |-> "New", config |-> config, err |-> New(config).err]
  /\ calls' = 0
  /\ UNCHANGED <<classes, config, trains, prefixGroups, regexps, output, loaded, callers>>

NextUsable == AddSpecialClasses \/ TrainFirst \/ NewTrained

SpecUsable == Init /\ [][NextUsable]_vars

----------------------------------------------------------------------------
(* The two validations, map iteration order made explicit *)

\* (*Validator).ValidateAgainstPatterns when range htmlClasses yields the
\* classes in the order htmlOrder: the orphans are appended as they are met
\* and sorted at the end.
RangeAgainstPatterns(val, htmlOrder) ==
  LET orphans == SelectSeq(htmlOrder, LAMBDA class : Classify(val, class) = "orphan")
      matched == Len(htmlOrder) - Len(orphans)
  IN [HTMLClasses |-> Len(htmlOrder),
      CSSClasses |-> 0,
      Orphans |-> SortStrings(orphans),
      Unused |-> <<>>,
      Matched |-> matched,
      OrphanCount |-> Len(orphans),
      UnusedCount |-> 0,
      CoveragePercent |-> CoveragePercent(matched, Len(htmlOrder))]

\* A faulty ValidateDirectly that returns Unused as the loop appended it,
\* without the sort; the ordering property C18 must tell it from the real one.
RangeDirectlyUnusedAsMet(htmlOrder, cssOrder) ==
  LET orphans == SelectSeq(htmlOrder, LAMBDA class : class \notin Range(cssOrder))
      unused == SelectSeq(cssOrder, LAMBDA class : class \notin Range(htmlOrder))
      matched == Len(htmlOrder) - Len(orphans)
  IN [HTMLClasses |-> Len(htmlOrder),
      CSSClasses |-> Len(cssOrder),
      Orphans |-> SortStrings(orphans),
      Unused |-> unused,
      Matched |-> matched,
      OrphanCount |-> Len(orphans),
      UnusedCount |-> Len(unused),
      CoveragePercent |-> CoveragePercent(matched, Len(htmlOrder))]

\* ValidateDirectly when range htmlClasses and range cssClasses yield the
\* classes in the orders htmlOrder and cssOrder.
RangeDirectly(htmlOrder, cssOrder) ==
  LET orphans == SelectSeq(htmlOrder, LAMBDA class : class \notin Range(cssOrder))
      unused == SelectSeq(cssOrder, LAMBDA class : class \notin Range(htmlOrder))
      matched == Len(htmlOrder) - Len(orphans)
  IN [HTMLClasses |-> Len(htmlOrder),
      CSSClasses |-> Len(cssOrder),
      Orphans |-> SortStrings(orphans),
      Unused |-> SortStrings(unused),
      Matched |-> matched,
      OrphanCount |-> Len(orphans),
      UnusedCount |-> Len(unused),
      CoveragePercent |-> CoveragePercent(matched, Len(htmlOrder))]

\* result := v.ValidateAgainstPatterns(htmlClasses), in some iteration order.
\* The calls share nothing but the Validator they read, so a behaviour follows
\* one call at a time: the next one starts from a newly built Validator.
CallRangeAgainstPatterns ==
  /\ v # Nil
  /\ ret.op = "New"
  /\ \E htmlClasses \in Targets :
       \E htmlOrder \in Orderings(htmlClasses) :
         ret' = [op |-> "ValidateAgainstPatterns", html |-> htmlClasses,
                 htmlOrder |-> htmlOrder, cssOrder |-> <<>>,
                 result |-> RangeAgainstPatterns(v, htmlOrder)]
  /\ UNCHANGED <<classes, config, trains, prefixGroups, v, regexps, output, loaded, calls, callers>>

\* result := validator.ValidateDirectly(htmlClasses, cssClasses), in some
\* iteration order of each map
CallRangeDirectly ==
  /\ ret.op \in {"none", "New"}
  /\ \E htmlClasses \in DirectSets, cssClasses \in DirectSets :
       \E htmlOrder \in Orderings(htmlClasses), cssOrder \in Orderings(cssClasses) :
         ret' = [op |-> "ValidateDirectly", html |-> htmlClasses, css |-> cssClasses,
                 htmlOrder |-> htmlOrder, cssOrder |-> cssOrder,
                 result |-> RangeDirectly(htmlOrder, cssOrder)]
  /\ UNCHANGED <<classes, config, trains, prefixGroups, v, regexps, output, loaded, calls, callers>>

NextResults == NewValidator \/ CallRangeAgainstPatterns \/ CallRangeDirectly

SpecResults == Init /\ [][NextResults]_vars

----------------------------------------------------------------------------
(* Saving and loading a configuration *)

\* trainer.LoadConfig on the path the train command writes: what it read and
\* the pair it returns.
CallLoadConfig ==
  /\ IF loaded = Nil THEN TRUE ELSE loaded.file # output
  /\ \E cfg \in {LoadConfig(output)} :
       loaded' = [file |-> output, config |-> cfg.config, err |-> cfg.err]
  /\ UNCHANGED <<classes, config, trains, prefixGroups, v, ret, regexps, output, calls, callers>>

NextPersist == TrainCmd \/ CallLoadConfig

SpecPersist == Init /\ [][NextPersist]_vars

----------------------------------------------------------------------------
(* Goroutines that share one Validator *)

\* Most goroutines calling ValidateAgainstPatterns on the Validator at once.
MaxCallers == 2

Callers == 1..MaxCallers

\* Target sets the goroutines classify.
SharedTargets == {{}, {c_zz}, {c_w_1, c_zz}, {c_flex, c_zz}}

\* The Result a call allocates on entry.
NewResult(htmlClasses) ==
  [HTMLClasses |-> Cardinality(htmlClasses),
   CSSClasses |-> 0,
   Orphans |-> <<>>,
   Unused |-> <<>>,
   Matched |-> 0,
   OrphanCount |-> 0,
   UnusedCount |-> 0,
   CoveragePercent |-> ZeroFloat]

\* A faulty loop body that records an orphan in the ignored set of the
\* Validator, which every goroutine reads; the concurrency property C16 must
\* tell it from the real one.
VisitClassRemembers(val, result, class) ==
  IF Classify(val, class) = "orphan"
  THEN [v |-> [val EXCEPT !.ignoredSet = @ \cup {class}],
        result |-> [result EXCEPT !.Orphans = Append(@, class)]]
  ELSE [v |-> val, result |-> [result EXCEPT !.Matched = @ + 1]]

\* One iteration of the loop of ValidateAgainstPatterns, on class: the
\* Validator as the iteration leaves it (it only reads it) and the call's own
\* Result.
VisitClass(val, result, class) ==
  [v |-> val,
   result |-> IF Classify(val, class) = "orphan"
              THEN [result EXCEPT !.Orphans = Append(@, class)]
              ELSE [result EXCEPT !.Matched = @ + 1]]

\* The statements after the loop: the counts, the coverage and the sort.
FinishResult(result) ==
  [result EXCEPT !.OrphanCount = Len(result.Orphans),
                 !.CoveragePercent = CoveragePercent(result.Matched, result.HTMLClasses),
                 !.Orphans = SortStrings(result.Orphans)]

\* The Validator the goroutines share is built once, before any of them runs.
NewSharedValidator ==
  /\ v = Nil
  /\ callers = <<>>
  /\ NewValidator

\* A goroutine enters ValidateAgainstPatterns with its own target map.
CallerEnters ==
  /\ v # Nil
  /\ \E c \in Callers \ DOMAIN callers, htmlClasses \in SharedTargets :
       callers' = [k \in DOMAIN callers \cup {c} |->
                     IF k = c
                     THEN [pc |-> "loop", html |-> htmlClasses, todo |-> htmlClasses,
                           result |-> NewResult(htmlClasses)]
                     ELSE callers[k]]
  /\ UNCHANGED <<classes, config, trains, prefixGroups, v, ret, regexps, output, loaded, calls>>

\* A goroutine runs one iteration of its loop, on whichever class the map
\* iteration hands it next.
CallerVisits ==
  \E c \in DOMAIN callers :
    /\ callers[c].pc = "loop"
    /\ \E class \in callers[c].todo :
         \E visit \in {VisitClass(v, callers[c].result, class)} :
           /\ v' = visit.v
           /\ callers' = [callers EXCEPT ![c].todo = @ \ {class},
                                         ![c].result = visit.result]
    /\ UNCHANGED <<classes, config, trains, prefixGroups, ret, regexps, output, loaded, calls>>

\* A goroutine leaves its loop and returns its Result.
CallerReturns ==
  \E c \in DOMAIN callers :
    /\ callers[c].pc = "loop"
    /\ callers[c].todo = {}
    /\ callers' = [callers EXCEPT ![c].pc = "done",
                                  ![c].result = FinishResult(@)]
    /\ UNCHANGED <<classes, config, trains, prefixGroups, v, ret, regexps, output, loaded, calls>>

NextConcurrent == NewSharedValidator \/ CallerEnters \/ CallerVisits \/ CallerReturns

SpecConcurrent == Init /\ [][NextConcurrent]_vars

----------------------------------------------------------------------------
(* Properties *)

\* C1: for every pair of class sets H (target) and C (reference),
\* ValidateDirectly(H, C) returns Orphans equal as a set to H minus C, Unused
\* equal as a set to C minus H, Matched equal to the size of H intersect C, and
\* OrphanCount + Matched = HTMLClasses = |H|, also when H or C is empty.
C1_DirectSetAlgebra ==
  ret.op = "ValidateDirectly" =>
    LET H == ret.html
        C == ret.css
        r == ret.result
    IN /\ Range(r.Orphans) = H \ C
       /\ Range(r.Unused) = C \ H
       /\ r.Matched = Cardinality(H \cap C)
       /\ r.OrphanCount + r.Matched = r.HTMLClasses
       /\ r.HTMLClasses = Cardinality(H)

\* A call where H and C overlap and each holds a class the other lacks.
C1_Witness ==
  /\ ret.op = "ValidateDirectly"
  /\ ret.html \ ret.css # {}
  /\ ret.css \ ret.html # {}
  /\ ret.html \cap ret.css # {}
  /\ ret.result.Matched = 1

\* A class is covered by the configuration held by validator val: it is in
\* ignored, in literal_classes, or at least one pattern matches it.
Covered(val, class) ==
  \/ class \in Range(val.config.Ignored)
  \/ class \in Range(val.config.LiteralClasses)
  \/ \E i \in DOMAIN val.config.Patterns : MatchString(val.config.Patterns[i].Regex, class)

\* C2: for every Configuration whose patterns all compile and every target
\* set T, ValidateAgainstPatterns counts a token of T as matched if it is in
\* ignored, else in literal_classes, else matched by at least one pattern;
\* a token is listed in Orphans if and only if none of the three holds.
C2_ClassificationRule ==
  ret.op = "ValidateAgainstPatterns" =>
    /\ Range(ret.result.Orphans) = {class \in ret.html : ~Covered(v, class)}
    /\ ret.result.Matched = Cardinality({class \in ret.html : Covered(v, class)})

\* A call whose target set holds a class covered by the ignored list alone and
\* a class nothing covers.
C2_Witness ==
  /\ ret.op = "ValidateAgainstPatterns"
  /\ \E class \in ret.html :
       /\ class \in Range(v.config.Ignored)
       /\ class \notin Range(v.config.LiteralClasses)
       /\ \A i \in DOMAIN v.config.Patterns : ~MatchString(v.config.Patterns[i].Regex, class)
  /\ \E class \in ret.html : ~Covered(v, class)
  /\ ret.result.Matched = 1
  /\ ret.result.OrphanCount = 1

\* C3: in pattern mode every token of the target set T contributes exactly
\* once, either 1 to Matched or one entry to Orphans, so that
\* Matched + OrphanCount = HTMLClasses = |T|, also for a token that is at once
\* in ignored, in literal_classes and matched by several patterns.
C3_NoDoubleCounting ==
  ret.op = "ValidateAgainstPatterns" =>
    LET r == ret.result
    IN /\ r.Matched + r.OrphanCount = r.HTMLClasses
       /\ r.HTMLClasses = Cardinality(ret.html)
       /\ r.OrphanCount = Len(r.Orphans)
       /\ NoDuplicates(r.Orphans)
       /\ Range(r.Orphans) \subseteq ret.html

\* A call whose target set holds a token that is in ignored, in
\* literal_classes and matched by two patterns, next to an orphan.
C3_Witness ==
  /\ ret.op = "ValidateAgainstPatterns"
  /\ \E class \in ret.html :
       /\ class \in v.ignoredSet
       /\ class \in v.literalSet
       /\ Cardinality({i \in DOMAIN v.compiledPatterns :
                         MatchString(v.compiledPatterns[i], class)}) >= 2
  /\ ret.result.Matched = 1
  /\ ret.result.OrphanCount = 1

\* C4: whenever the target set is empty (HTMLClasses = 0) the result has
\* CoveragePercent = 100.0; otherwise CoveragePercent is
\* Matched / HTMLClasses * 100.
C4_VacuousCoverage ==
  ret.op = "ValidateAgainstPatterns" =>
    LET r == ret.result
    IN IF r.HTMLClasses = 0
       THEN FloatEq(r.CoveragePercent, Ratio(100, 1))
       ELSE FloatEq(r.CoveragePercent, Ratio(r.Matched * 100, r.HTMLClasses))

\* Some pattern of cfg is rejected by regexp.Compile.
HasInvalidPattern(cfg) ==
  cfg # Nil /\ \E i \in DOMAIN cfg.Patterns : ~Compiles(cfg.Patterns[i].Regex)

\* C8: validator.New returns an error and no Validator whenever at least one
\* pattern of the Configuration fails to compile, whatever its position and
\* however many others compile; the pattern is never skipped, and the
\* validate command then exits non-zero having classified nothing.
C8_InvalidPatternFatal ==
  /\ (ret.op = "New" /\ HasInvalidPattern(ret.config)) =>
       /\ v = Nil
       /\ ret.err # Nil
       /\ \E i \in DOMAIN ret.config.Patterns :
            /\ ret.config.Patterns[i].Name = ret.err.invalidPattern
            /\ ~Compiles(ret.config.Patterns[i].Regex)
  /\ (ret.op = "New" /\ ~HasInvalidPattern(ret.config)) => (v # Nil /\ ret.err = Nil)
  /\ (ret.op = "validate" /\ HasInvalidPattern(ret.config)) =>
       /\ ret.exit = 1
       /\ ret.err # Nil
       /\ ret.result = Nil
       /\ ret.classified = {}

\* A run of the command on a configuration whose last pattern alone does not
\* compile, with target classes the other patterns would have matched.
C8_Witness ==
  /\ ret.op = "validate"
  /\ ret.config # Nil
  /\ Len(ret.config.Patterns) >= 2
  /\ ~Compiles(ret.config.Patterns[Len(ret.config.Patterns)].Regex)
  /\ \A i \in 1..(Len(ret.config.Patterns) - 1) : Compiles(ret.config.Patterns[i].Regex)
  /\ \E class \in ret.html : MatchString(ret.config.Patterns[1].Regex, class)
  /\ ret.exit = 1

\* The classes handed to the latest Train call.
Trained == UNION {Range(prefixGroups[prefix]) : prefix \in DOMAIN prefixGroups}

\* The patterns of the configuration that Train synthesized under name.
Learned(name) ==
  {i \in DOMAIN config.Patterns :
     config.Patterns[i].Name = name /\ config.Patterns[i].Count > 0}

\* C5: two fresh Trainers given the same reference class set produce identical
\* Configurations from Train (patterns, their order, name, regex, description,
\* examples and count, and literal_classes), whatever order the set and the
\* prefix groups are iterated in: every outcome of Train on a fresh Trainer is
\* the one outcome TrainedConfig picks for that class set.
C5_TrainingDeterminism ==
  [][(trains = 0 /\ trains' = 1) => config' = TrainedConfig(classes)]_vars

\* C6: Train produces a learned pattern for a prefix group only if the group
\* has at least 3 members; every member of a group of size 1 or 2 is in
\* literal_classes, no learned pattern is named after the group's prefix, and
\* each such member classifies as matched through the literal-set check.
C6_MinimumSupport ==
  trains >= 1 =>
    /\ \A i \in DOMAIN config.Patterns :
         config.Patterns[i].Count > 0 =>
           /\ config.Patterns[i].Name \in DOMAIN prefixGroups
           /\ Len(prefixGroups[config.Patterns[i].Name]) >= 3
    /\ LET made == New(config)
       IN \A prefix \in DOMAIN prefixGroups :
            Len(prefixGroups[prefix]) < 3 =>
              /\ Learned(prefix) = {}
              /\ made.err = Nil
              /\ \A k \in DOMAIN prefixGroups[prefix] :
                   /\ prefixGroups[prefix][k] \in Range(config.LiteralClasses)
                   /\ Classify(made.v, prefixGroups[prefix][k]) = "literal"

\* Train has run on a set holding a group of two classes and a group of one
\* class that a pattern of the configuration matches as well, so that the
\* literal-set check is what decides before any pattern is tried.
C6_Witness ==
  /\ trains >= 1
  /\ \E prefix \in DOMAIN prefixGroups :
       /\ Len(prefixGroups[prefix]) = 2
       /\ Range(prefixGroups[prefix]) \subseteq Range(config.LiteralClasses)
  /\ \E prefix \in DOMAIN prefixGroups :
       /\ Len(prefixGroups[prefix]) = 1
       /\ \E i \in DOMAIN config.Patterns :
            MatchString(config.Patterns[i].Regex, prefixGroups[prefix][1])

\* Every member of the group has a purely numeric suffix.
AllNumeric(prefix, group) ==
  \A k \in DOMAIN group :
    LET rest == SubSeq(group[k], Len(prefix) + 1, Len(group[k]))
        digits == IF Len(rest) > 0 /\ Head(rest) = "-" THEN Tail(rest) ELSE rest
    IN /\ SubSeq(group[k], 1, Len(prefix)) = prefix
       /\ Len(digits) > 0
       /\ \A i \in DOMAIN digits : IsDigit(digits[i])

\* C7: for a prefix group of size >= 3 whose suffixes are all purely numeric
\* the synthesized pattern matches every token formed by the prefix, an
\* optional single hyphen and a non-empty digit string, unseen ones included,
\* and does not match the prefix followed by an alphabetic suffix.
C7_NumericGeneralization ==
  trains >= 1 =>
    \A prefix \in DOMAIN prefixGroups :
      (Len(prefixGroups[prefix]) >= 3 /\ AllNumeric(prefix, prefixGroups[prefix])) =>
        /\ Learned(prefix) # {}
        /\ \A i \in Learned(prefix) :
             /\ \A h \in Hyphens, d \in DigitSuffixes :
                  MatchString(config.Patterns[i].Regex, prefix \o h \o d)
             /\ \A h \in Hyphens, a \in LetterSuffixes :
                  ~MatchString(config.Patterns[i].Regex, prefix \o h \o a)

\* Train has run on a set holding three classes of one prefix with numeric
\* suffixes, none of which is the unseen number the pattern is probed with.
C7_Witness ==
  /\ trains >= 1
  /\ \E prefix \in DOMAIN prefixGroups :
       /\ Len(prefixGroups[prefix]) >= 3
       /\ AllNumeric(prefix, prefixGroups[prefix])
       /\ Learned(prefix) # {}
       /\ prefix \o <<"-","9","9","9">> \notin Trained

\* C9: after any sequence of AddClasses and Train calls, Train called more
\* than once included, the Configuration returned by Train has its patterns
\* sorted ascending by name with pairwise distinct names, and literal_classes
\* sorted ascending with no duplicate entries.
C9_ConfigOrdering ==
  trains >= 1 =>
    /\ \A i, j \in DOMAIN config.Patterns :
         i < j => StrLess(config.Patterns[i].Name, config.Patterns[j].Name)
    /\ \A i, j \in DOMAIN config.LiteralClasses :
         i < j => StrLess(config.LiteralClasses[i], config.LiteralClasses[j])

\* C10: after Train, for every curated catalogue entry with name n, if a
\* learned pattern named n exists the Configuration contains exactly one
\* pattern named n and it is the learned one; otherwise the Configuration
\* contains the curated entry with its regex unchanged. No learned pattern is
\* removed or altered by the merge.
C10_CuratedMergeRule ==
  trains >= 1 =>
    /\ \A k \in DOMAIN tailwindPatterns :
         LET n == tailwindPatterns[k].Name
             named == {i \in DOMAIN config.Patterns : config.Patterns[i].Name = n}
         IN IF \E i \in named : config.Patterns[i].Count > 0
            THEN /\ Cardinality(named) = 1
                 /\ \A i \in named :
                      /\ n \in DOMAIN prefixGroups
                      /\ config.Patterns[i].Count = Len(prefixGroups[n])
                      /\ config.Patterns[i].Examples = prefixGroups[n]
                      /\ config.Patterns[i].Regex # tailwindPatterns[k].Regex
            ELSE \E i \in named : config.Patterns[i].Regex = tailwindPatterns[k].Regex
    /\ \A prefix \in DOMAIN prefixGroups :
         (Len(prefixGroups[prefix]) >= 3 /\ \E c \in Range(prefixGroups[prefix]) : c # prefix) =>
           \E i \in Learned(prefix) :
             /\ config.Patterns[i].Count = Len(prefixGroups[prefix])
             /\ config.Patterns[i].Examples = prefixGroups[prefix]

\* C12 as stated: Train on a Trainer to which no class was added does not
\* fail and returns an empty Configuration, one with no patterns and no
\* literal_classes.
C12_EmptyTraining ==
  (trains >= 1 /\ classes = {}) =>
    /\ config.Patterns = <<>>
    /\ config.LiteralClasses = <<>>

\* C12 as amended: Train on a Trainer to which no class was added does not
\* fail and returns a Configuration with no learned pattern and no
\* literal_classes; its patterns are exactly the entries of the curated
\* catalogue, each once, in ascending order of name.
C12_EmptyTrainingCurated ==
  (trains >= 1 /\ classes = {}) =>
    /\ prefixGroups = <<>>
    /\ config.Version = Version
    /\ config.LiteralClasses = <<>>
    /\ \A i \in DOMAIN config.Patterns : config.Patterns[i].Count = 0
    /\ Len(config.Patterns) = Len(tailwindPatterns)
    /\ Range(config.Patterns) = Range(tailwindPatterns)
    /\ \A i, j \in DOMAIN config.Patterns :
         i < j => StrLess(config.Patterns[i].Name, config.Patterns[j].Name)

\* Train has returned on a Trainer that holds no class.
C12_Witness ==
  /\ trains >= 1
  /\ classes = {}
  /\ config.LiteralClasses = <<>>
  /\ Len(config.Patterns) > 0

\* C13 as stated: the validate command (and likewise direct) terminates with
\* a non-zero exit code whenever the classification result contains at least
\* one orphan, and with exit code 0 when it completes and the result has no
\* orphans.
C13_ExitCodeOnOrphans ==
  (ret.op \in {"validate", "direct"} /\ ret.result # Nil) =>
    IF Len(ret.result.Orphans) > 0 THEN ret.exit # 0 ELSE ret.exit = 0

\* C13 as amended: the validate command (and likewise direct), once it has a
\* classification result, terminates with exit code 1 whenever the result
\* contains at least one orphan and --fail is set (its default), and with exit
\* code 0 when the result has no orphans or --fail is switched off.
C13_ExitCodeOnOrphansWithFail ==
  (ret.op \in {"validate", "direct"} /\ ret.result # Nil) =>
    ret.exit = IF ret.fail /\ Len(ret.result.Orphans) > 0 THEN 1 ELSE 0

\* A run of validate under --fail whose result holds exactly one orphan next
\* to a matched class.
C13_Witness ==
  /\ ret.op = "validate"
  /\ ret.result # Nil
  /\ ret.fail
  /\ Len(ret.result.Orphans) = 1
  /\ ret.result.Matched = 1
  /\ ret.exit = 1

\* C14: each of the train, validate and direct commands exits with code 1
\* when a required input cannot be loaded (the config file is missing or
\* cannot be parsed, the HTML directory cannot be read, a given CSS path
\* cannot be stat-ed or parsed), and does not go on to report a result
\* computed from the remaining inputs: train writes no configuration,
\* validate and direct have no classification result.
C14_ExitOnUnloadableInput ==
  /\ (ret.op = "train" /\ ParseErrors(ret.css) # {}) =>
       /\ ret.exit = 1
       /\ ~ret.saved
       /\ output = Nil
  /\ (ret.op = "validate" /\ (LoadConfig(ret.file).err # Nil \/ ret.extracted.err # Nil)) =>
       /\ ret.exit = 1
       /\ ret.result = Nil
  /\ (ret.op = "direct" /\ (ret.extracted.err # Nil \/ ParseErrors(ret.css) # {})) =>
       /\ ret.exit = 1
       /\ ret.result = Nil

\* C15: ValidateAgainstPatterns never changes the Configuration, the literal
\* set, the ignored set or the compiled pattern list of its Validator and
\* never changes the target set it is given; after any sequence of calls on
\* one Validator, a call with target T returns the same result (counts,
\* orphans, coverage) as the first call with T on a freshly built Validator.
C15_ClassifierPurity ==
  [][(ret'.op = "ValidateAgainstPatterns" /\ calls' = calls + 1) =>
       /\ v' = v
       /\ v'.config = v.config
       /\ v'.literalSet = Range(v.config.LiteralClasses)
       /\ v'.ignoredSet = Range(v.config.Ignored)
       /\ ret'.after = ret'.html
       /\ ret'.result = ValidateAgainstPatterns(New(v.config).v, ret'.html)]_vars

\* A second call on one Validator has returned, for a target set that holds an
\* orphan and a class the Validator matches.
C15_Witness ==
  /\ calls = 2
  /\ ret.op = "ValidateAgainstPatterns"
  /\ ret.result.OrphanCount = 1
  /\ ret.result.Matched = 1
  /\ v.ignoredSet # {}

\* C16: when several callers run ValidateAgainstPatterns on the same
\* Validator concurrently, in any interleaving, no call writes state shared
\* with another call (the Validator stays as it was built, and a step of one
\* caller leaves the other callers' targets and results alone), and each call
\* returns exactly the result it would return when run alone.
C16_ConcurrentReuse ==
  /\ [](\A c \in DOMAIN callers :
          callers[c].pc = "done" =>
            callers[c].result = ValidateAgainstPatterns(New(v.config).v, callers[c].html))
  /\ [][/\ v # Nil => v' = v
        /\ \A c \in DOMAIN callers :
             callers'[c] # callers[c] =>
               \A d \in DOMAIN callers \ {c} : callers'[d] = callers[d]]_vars

\* Two callers are in their loops at once on a Validator with compiled
\* patterns, each with one class of its target visited and one still to
\* visit; one of them has met an orphan, the other a class that is covered.
C16_Witness ==
  /\ v # Nil
  /\ Len(v.compiledPatterns) > 0
  /\ \E c, d \in DOMAIN callers :
       /\ c # d
       /\ callers[c].pc = "loop"
       /\ callers[d].pc = "loop"
       /\ Cardinality(callers[c].html) = 2
       /\ Cardinality(callers[d].html) = 2
       /\ Cardinality(callers[c].todo) = 1
       /\ Cardinality(callers[d].todo) = 1
       /\ Len(callers[c].result.Orphans) = 1
       /\ callers[d].result.Matched = 1

\* C17: for every Configuration produced by Train, SaveConfig followed by
\* LoadConfig of the same file succeeds and yields a Configuration with the
\* same version, the same patterns (name, regex, description, examples and
\* count, in the same order) and the same literal_classes; classifying any
\* target set with the loaded Configuration gives the same result as with the
\* original.
C17_PersistenceRoundTrip ==
  (loaded # Nil /\ output # Nil /\ loaded.file = output) =>
    /\ loaded.err = Nil
    /\ loaded.config.Version = config.Version
    /\ Len(loaded.config.Patterns) = Len(config.Patterns)
    /\ \A i \in DOMAIN config.Patterns :
         /\ loaded.config.Patterns[i].Name = config.Patterns[i].Name
         /\ loaded.config.Patterns[i].Regex = config.Patterns[i].Regex
         /\ loaded.config.Patterns[i].Description = config.Patterns[i].Description
         /\ loaded.config.Patterns[i].Examples = config.Patterns[i].Examples
         /\ loaded.config.Patterns[i].Count = config.Patterns[i].Count
    /\ loaded.config.LiteralClasses = config.LiteralClasses
    /\ LET fromFile == New(loaded.config)
           original == New(config)
       IN /\ fromFile.err = Nil
          /\ original.err = Nil
          /\ \A T \in Targets :
               ValidateAgainstPatterns(fromFile.v, T) = ValidateAgainstPatterns(original.v, T)

\* A configuration with a learned pattern (examples, a count, a backslash in
\* its regex) and a literal class has been saved and loaded back.
C17_Witness ==
  /\ loaded # Nil
  /\ output # Nil
  /\ loaded.file = output
  /\ loaded.err = Nil
  /\ loaded.config.LiteralClasses # <<>>
  /\ \E i \in DOMAIN loaded.config.Patterns :
       /\ Len(loaded.config.Patterns[i].Examples) >= 2
       /\ loaded.config.Patterns[i].Count >= MinSupport
       /\ \E k \in DOMAIN loaded.config.Patterns[i].Regex :
            loaded.config.Patterns[i].Regex[k] = "\\"

\* C18: in every result, Orphans (both modes) and Unused (direct mode) are in
\* ascending lexicographic order with no repeated entry, and the result is
\* the same whatever the iteration order of the input sets; in pattern mode
\* Unused is empty and CSSClasses is 0.
C18_SortedOutputLists ==
  ret.op \in {"ValidateAgainstPatterns", "ValidateDirectly"} =>
    /\ \A i, j \in DOMAIN ret.result.Orphans :
         i < j => StrLess(ret.result.Orphans[i], ret.result.Orphans[j])
    /\ \A i, j \in DOMAIN ret.result.Unused :
         i < j => StrLess(ret.result.Unused[i], ret.result.Unused[j])
    /\ ret.op = "ValidateAgainstPatterns" =>
         /\ ret.result.Unused = <<>>
         /\ ret.result.CSSClasses = 0
         /\ \A other \in Orderings(ret.html) :
              RangeAgainstPatterns(v, other) = ret.result
    /\ ret.op = "ValidateDirectly" =>
         \A htmlOther \in Orderings(ret.html), cssOther \in Orderings(ret.css) :
           RangeDirectly(htmlOther, cssOther) = ret.result

\* A direct comparison met two orphans and two unused classes, each pair in
\* descending order, and returned them.
C18_Witness ==
  /\ ret.op = "ValidateDirectly"
  /\ Len(ret.result.Orphans) = 2
  /\ Len(ret.result.Unused) = 2
  /\ StrLess(ret.htmlOrder[2], ret.htmlOrder[1])
  /\ StrLess(ret.cssOrder[2], ret.cssOrder[1])

\* C19: for the CSS files compared and a threshold p, a file A is reported as
\* removable with respect to another file B exactly when A is non-empty and
\* the share of A's classes that are also in B, as a percentage, is >= p
\* (inclusive); each unordered pair of distinct files is examined in both
\* directions, each report made once (so two identical non-empty files yield
\* two reports and two disjoint files none).
C19_RedundancyThreshold ==
  (ret.op = "redundancy" /\ ret.exit = 0) =>
    LET fileClasses == FileClasses(ret.paths)
        reports == {ret.Removable[i] : i \in DOMAIN ret.Removable}
    IN /\ \A A \in DOMAIN fileClasses, B \in DOMAIN fileClasses :
            A # B =>
              ([file |-> A, by |-> B] \in reports
                 <=> /\ fileClasses[A] # {}
                     /\ Cardinality(fileClasses[A] \cap fileClasses[B]) * 100
                          >= ret.threshold * Cardinality(fileClasses[A]))
       /\ \A report \in reports :
            /\ report.file \in DOMAIN fileClasses
            /\ report.by \in DOMAIN fileClasses \ {report.file}
       /\ Len(ret.Removable) = Cardinality(reports)

\* C20: scanFile harvests string literals only: it extracts the class tokens
\* of a quoted class= / className= value and of the first string-literal
\* argument of clsx, classnames, twMerge, cva or cn; it extracts nothing from
\* a captured value that contains the interpolation marker "${", and nothing
\* from later or conditional arguments of a helper call.
C20_StringLiteralsOnly ==
  (ret.op = "scanFile" /\ ret.err = Nil) =>
    LET Harvest(statement) ==
          CASE statement.kind = "attribute" ->
                 IF Contains(statement.value, <<"$", "{">>) THEN {}
                 ELSE extractTokens(statement.value)
            [] statement.kind = "helper" ->
                 IF /\ statement.args[1].kind = "literal"
                    /\ ~Contains(statement.args[1].value, <<"$", "{">>)
                 THEN extractTokens(statement.args[1].value)
                 ELSE {}
            [] OTHER -> {}
    IN ret.classes = UNION {Harvest(ret.file[i]) : i \in DOMAIN ret.file}

\* A file was scanned that holds a helper call with a literal first argument
\* and a conditional second one, and a class attribute with an interpolated
\* value; the two tokens of the first argument were harvested.
C20_Witness ==
  /\ ret.op = "scanFile"
  /\ ret.err = Nil
  /\ \E i, j \in DOMAIN ret.file :
       /\ ret.file[i].kind = "helper"
       /\ Len(ret.file[i].args) = 2
       /\ ret.file[i].args[1].kind = "literal"
       /\ ret.file[i].args[2].kind = "conditional"
       /\ ret.file[j].kind = "attribute"
       /\ Contains(ret.file[j].value, <<"$", "{">>)
  /\ Cardinality(ret.classes) = 2

\* C21: scanDir never returns a class token that occurs only in files
\* located under a directory whose name is in the Excludes list (at any depth,
\* the whole subtree is skipped), and returns the tokens of every file with a
\* configured extension outside such directories.
C21_ExcludedDirectories ==
  ret.op = "scanDir" =>
    LET Tokens(file) ==
          scanFile([lines |-> file.lines,
                    err |-> IF file.readable THEN Nil ELSE [open |-> TRUE]]).classes
        Excluded(file) ==
          \/ ret.root \in Range(ret.opts.Excludes)
          \/ \E i \in DOMAIN file.dirs : file.dirs[i] \in Range(ret.opts.Excludes)
    IN /\ \A token \in ret.classes :
            ~ /\ \E file \in ret.tree : token \in Tokens(file)
              /\ \A file \in ret.tree : token \in Tokens(file) => Excluded(file)
       /\ \A file \in ret.tree :
            (~Excluded(file) /\ Ext(file.name) \in Range(ret.opts.Extensions))
              => Tokens(file) \subseteq ret.classes

\* C22: pattern mode refines direct mode: for every reference set R and
\* target set T, every orphan reported by ValidateAgainstPatterns with the
\* Configuration Train(R) is also an orphan of ValidateDirectly(T, R);
\* equivalently, every class of R classifies as matched against the
\* Configuration trained from R.
C22_TrainingSoundness ==
  trains = 1 =>
    LET made == New(config)
    IN /\ made.err = Nil
       /\ \A class \in Trained : Classify(made.v, class) # "orphan"
       /\ \A T \in Targets :
            Range(ValidateAgainstPatterns(made.v, T).Orphans)
              \subseteq Range(ValidateDirectly(T, Trained).Orphans)

\* C23: for every patterned group, every distinct non-numeric suffix of the
\* group, alphabetic or other (the latter regex-escaped), appears as one
\* alternative of the synthesized regex, the alternatives being joined in
\* ascending lexicographic order (after \d+ when the group has numeric
\* suffixes as well), so that the regex depends only on the set of members.
C23_SuffixAlternation ==
  trains = 1 =>
    \A i \in DOMAIN config.Patterns :
      config.Patterns[i].Count > 0 =>
        LET prefix == config.Patterns[i].Name
            group == prefixGroups[prefix]
            suffixes == {SuffixOf(prefix, group[k]) : k \in DOMAIN group} \ {<<>>}
            alternatives == {IF IsWord(s) THEN s ELSE QuoteMeta(s) :
                               s \in {x \in suffixes : ~IsNumber(x)}}
            joined == Join(SortStrings(SetToSeq(alternatives)), <<"|">>)
        IN alternatives # {} =>
             config.Patterns[i].Regex \in
               {<<"^">> \o QuoteMeta(prefix) \o <<"-","?","(">> \o joined \o <<")","$">>,
                <<"^">> \o QuoteMeta(prefix) \o <<"-","?","(","\\","d","+","|">>
                  \o joined \o <<")","$">>}

\* The characters of class before its first digit; the whole class when it
\* has no digit.
BeforeFirstDigit(class) ==
  LET digits == {i \in DOMAIN class : IsDigit(class[i])}
  IN IF digits = {} THEN class ELSE SubSeq(class, 1, Min(digits) - 1)

HasDigit(class) == \E i \in DOMAIN class : IsDigit(class[i])

\* The longest run of letters and hyphens that ends where s ends.
LongestRun(s) ==
  LET starts == {k \in 1..(Len(s) + 1) :
                   \A i \in k..Len(s) : IsAlpha(s[i]) \/ s[i] = "-"}
  IN SubSeq(s, Min(starts), Len(s))

\* The group in which groupByPrefix put class.
KeysOf(groups, class) == {prefix \in DOMAIN groups : class \in Range(groups[prefix])}

\* C24 (as stated): the group key of every class is the longest run of
\* letters and hyphens before its first digit, the whole class when it has no
\* digit, and two classes share a group exactly when they have that same prefix.
C24_PrefixExtraction ==
  ret.op = "groupByPrefix" =>
    LET stated(class) == IF HasDigit(class) THEN LongestRun(BeforeFirstDigit(class)) ELSE class
    IN /\ \A class \in ret.classes : KeysOf(ret.groups, class) = {stated(class)}
       /\ \A a, b \in ret.classes :
            (KeysOf(ret.groups, a) = KeysOf(ret.groups, b)) <=> (stated(a) = stated(b))

\* C24 (amended): when a class has a digit and everything before its first
\* digit is a non-empty run of letters and hyphens, its group key is that run
\* without the one hyphen that separates it from the digit (the run itself
\* when it is a lone hyphen or does not end in a hyphen); in every other case
\* the key is the whole class. Every class is in exactly one group, the one of
\* its key, so two classes share a group exactly when their keys are equal.
C24_PrefixBeforeSeparator ==
  ret.op = "groupByPrefix" =>
    LET before(class) == BeforeFirstDigit(class)
        isRun(s) == Len(s) > 0 /\ \A i \in DOMAIN s : IsAlpha(s[i]) \/ s[i] = "-"
        key(class) ==
          IF HasDigit(class) /\ isRun(before(class))
          THEN IF Len(before(class)) > 1 /\ before(class)[Len(before(class))] = "-"
               THEN SubSeq(before(class), 1, Len(before(class)) - 1)
               ELSE before(class)
          ELSE class
    IN /\ \A class \in ret.classes : KeysOf(ret.groups, class) = {key(class)}
       /\ \A a, b \in ret.classes :
            (KeysOf(ret.groups, a) = KeysOf(ret.groups, b)) <=> (key(a) = key(b))
       /\ \A prefix \in DOMAIN ret.groups :
            /\ Range(ret.groups[prefix]) \subseteq ret.classes
            /\ Len(ret.groups[prefix]) = Cardinality(Range(ret.groups[prefix]))

\* groupByPrefix has grouped w-1 with w1 under the key w, apart from md:p-4,
\* which is its own key.
C24_Witness ==
  /\ ret.op = "groupByPrefix"
  /\ ret.classes = {c_w_1, c_w1, c_mdcp_4}
  /\ DOMAIN ret.groups = {<<"w">>, c_mdcp_4}
  /\ Len(ret.groups[<<"w">>]) = 2

\* C25: after Train, every learned pattern bears the prefix of its group as
\* name and the size of the group as count, and its examples are min(5, size)
\* pairwise distinct classes of the group; every group of three classes or
\* more that yields a pattern has one; every other pattern is an entry of the
\* catalogue, with count 0 and no examples.
C25_PatternMetadata ==
  trains = 1 =>
    LET learned == {i \in DOMAIN config.Patterns : config.Patterns[i].Count > 0}
        patterned == {prefix \in DOMAIN prefixGroups :
                        /\ Len(prefixGroups[prefix]) >= 3
                        /\ generatePattern(prefix, prefixGroups[prefix]) # Nil}
    IN /\ \A i \in learned :
            LET pattern == config.Patterns[i]
            IN /\ pattern.Name \in patterned
               /\ pattern.Count = Len(prefixGroups[pattern.Name])
               /\ Len(pattern.Examples) = Min({5, pattern.Count})
               /\ Cardinality(Range(pattern.Examples)) = Len(pattern.Examples)
               /\ Range(pattern.Examples) \subseteq Range(prefixGroups[pattern.Name])
               /\ \A j \in learned : config.Patterns[j].Name = pattern.Name => j = i
       /\ \A prefix \in patterned : \E i \in learned : config.Patterns[i].Name = prefix
       /\ \A i \in (DOMAIN config.Patterns) \ learned :
            /\ config.Patterns[i].Count = 0
            /\ config.Patterns[i].Examples = <<>>
            /\ config.Patterns[i] \in Range(tailwindPatterns)
       /\ \A k \in DOMAIN tailwindPatterns :
            tailwindPatterns[k].Name \notin patterned =>
              \E i \in (DOMAIN config.Patterns) \ learned :
                config.Patterns[i] = tailwindPatterns[k]

\* Train has turned a group of six classes into a pattern of count 6 with
\* five examples, next to the catalogue entries.
C25_Witness ==
  /\ trains = 1
  /\ Cardinality(classes) = 6
  /\ \E i \in DOMAIN config.Patterns :
       /\ config.Patterns[i].Name = <<"m">>
       /\ config.Patterns[i].Count = 6
       /\ Len(config.Patterns[i].Examples) = 5
  /\ \E i \in DOMAIN config.Patterns : config.Patterns[i].Count = 0

\* The pattern re accepts or rejects s as a whole: no match starts after the
\* first character of s and none ends before its last.
WholeOnly(re, s) ==
  /\ MatchAlt(re, 1, Len(re), s, 1..Len(s)) = {}
  /\ MatchAlt(re, 1, Len(re), s, {0}) \subseteq {Len(s)}

\* The trained class names and two catalogue words, bare and with a
\* character before or behind.
AnchorProbes ==
  LET words == classes \cup {c_border, <<"h","i","d","d","e","n">>}
  IN words \cup {<<"x">> \o w : w \in words} \cup {w \o <<"x">> : w \in words}

\* C26: after Train on class names holding any regexp metacharacters, every
\* pattern regex of the Config compiles and matches a token only as a whole,
\* and validator.New on that Config returns a Validator and no error.
C26_TrainedPatternsUsable ==
  /\ trains = 1 =>
       \A i \in DOMAIN config.Patterns :
         /\ Compiles(config.Patterns[i].Regex)
         /\ WellFormed(config.Patterns[i].Regex)
         /\ \A s \in AnchorProbes : WholeOnly(config.Patterns[i].Regex, s)
  /\ ret.op = "New" =>
       /\ ret.err = Nil
       /\ v # Nil
       /\ Len(v.compiledPatterns) = Len(config.Patterns)

\* validator.New has accepted a Config whose learned pattern w lists the
\* escaped suffixes of w-1[], w-2(), w-3{} and w-4|\.
C26_Witness ==
  /\ ret.op = "New"
  /\ ret.err = Nil
  /\ classes = {c_w_1sq, c_w_2par, c_w_3br, c_w_4bar}
  /\ \E i \in DOMAIN config.Patterns :
       /\ config.Patterns[i].Count = 4
       /\ config.Patterns[i].Regex =
            <<"^","w","-","?","(">>
            \o <<"1","\\","[","\\","]","|","2","\\","(","\\",")","|">>
            \o <<"3","\\","{","\\","}","|","4","\\","|","\\","\\">>
            \o <<")","$">>
       /\ MatchString(config.Patterns[i].Regex, c_w_4bar)

\* Longest pattern list of which every permutation is tried.
MaxPermuted == 3

\* Permutations of 1..n: all of them up to MaxPermuted, beyond that the
\* reversal, the rotation by one and the exchanges of two neighbours.
PatternOrders(n) ==
  IF n <= MaxPermuted
  THEN {f \in [1..n -> 1..n] : \A i, j \in 1..n : f[i] = f[j] => i = j}
  ELSE {[i \in 1..n |-> n + 1 - i], [i \in 1..n |-> (i % n) + 1]}
       \cup {[i \in 1..n |-> IF i = k THEN k + 1 ELSE IF i = k + 1 THEN k ELSE i] :
               k \in 1..(n - 1)}

\* The pattern with other name, description, examples and count.
Relabelled(pattern) ==
  [pattern EXCEPT !.Name = <<"x">>, !.Description = <<>>,
                  !.Examples = <<c_zz>>, !.Count = pattern.Count + 1]

\* The pattern lists obtained from patterns by a permutation, relabelled or not.
Rearrangements(patterns) ==
  LET n == Len(patterns)
  IN {[i \in 1..n |-> patterns[f[i]]] : f \in PatternOrders(n)}
     \cup {[i \in 1..n |-> Relabelled(patterns[f[i]])] : f \in PatternOrders(n)}

\* C27: the Result that ValidateAgainstPatterns returned for a target set is
\* the Result a Validator made from the same Config with its patterns
\* permuted, or with other names, descriptions, examples and counts, returns
\* for that target set.
C27_PatternOrderIrrelevant ==
  (ret.op = "ValidateAgainstPatterns" /\ v # Nil) =>
    \A patterns \in Rearrangements(v.config.Patterns) :
      LET made == New([v.config EXCEPT !.Patterns = patterns])
      IN /\ made.err = Nil
         /\ ValidateAgainstPatterns(made.v, ret.html) = ret.result

\* ValidateAgainstPatterns has classified a class that only the second of
\* several patterns matches, next to a class the first one matches.
C27_Witness ==
  /\ ret.op = "ValidateAgainstPatterns"
  /\ v # Nil
  /\ Len(v.compiledPatterns) = 2
  /\ \E a, b \in ret.html :
       /\ Classify(v, a) = "pattern" /\ FirstMatch(v.compiledPatterns, a, 1) = 2
       /\ Classify(v, b) = "pattern" /\ FirstMatch(v.compiledPatterns, b, 1) = 1
       /\ MatchString(v.compiledPatterns[2], b)

\* C28: in every Result of ValidateAgainstPatterns and of ValidateDirectly,
\* OrphanCount is the length of Orphans and UnusedCount the length of Unused,
\* HasOrphans holds exactly when Orphans is not empty and HasUnused exactly
\* when Unused is not empty, and Matched lies between 0 and HTMLClasses.
C28_CountsAgreeWithLists ==
  ret.op \in {"ValidateAgainstPatterns", "ValidateDirectly"} =>
    /\ ret.result.OrphanCount = Len(ret.result.Orphans)
    /\ ret.result.UnusedCount = Len(ret.result.Unused)
    /\ HasOrphans(ret.result) <=> ret.result.Orphans # <<>>
    /\ HasUnused(ret.result) <=> ret.result.Unused # <<>>
    /\ 0 <= ret.result.Matched
    /\ ret.result.Matched <= ret.result.HTMLClasses

\* A direct comparison has returned one orphan, one matched class and no
\* unused class.
C28_Witness ==
  /\ ret.op = "ValidateDirectly"
  /\ Len(ret.result.Orphans) = 1
  /\ ret.result.Unused = <<>>
  /\ ret.result.Matched = 1
  /\ HasOrphans(ret.result)
  /\ ~HasUnused(ret.result)

\* The characters a class token may hold.
TokenBytes ==
  {Ascii[i] : i \in {k \in DOMAIN Ascii : IsAlpha(Ascii[k]) \/ IsDigit(Ascii[k])}}
  \cup {":", "_", "-", "[", "]", "/", "#", "%", "."}

\* s[a..b] is a token of s: it holds no space and a space or an end of s lies
\* on either side.
IsTokenAt(s, a, b) ==
  /\ a <= b
  /\ \A i \in a..b : s[i] # " "
  /\ a > 1 => s[a - 1] = " "
  /\ b < Len(s) => s[b + 1] = " "

\* C29: after extractTokens(s, set) the set holds its earlier entries and the
\* tokens of s of at most 128 bytes made of allowed characters only, and
\* nothing else.
C29_TokenFilter ==
  ret.op = "extractTokens" =>
    LET kept == {SubSeq(ret.s, w[1], w[2]) :
                   w \in {x \in (DOMAIN ret.s) \X (DOMAIN ret.s) :
                            /\ IsTokenAt(ret.s, x[1], x[2])
                            /\ x[2] - x[1] + 1 <= 128
                            /\ \A i \in x[1]..x[2] : ret.s[i] \in TokenBytes}}
    IN /\ ret.before \subseteq ret.classes
       /\ ret.classes \ ret.before = kept \ ret.before

\* extractTokens has kept a token of 128 bytes and dropped one of 129 bytes,
\* leaving the entry z of the map alone.
C29_Witness ==
  /\ ret.op = "extractTokens"
  /\ ret.before = {<<"z">>}
  /\ ret.classes = {<<"z">>, <<"b">>, LongToken(128)}
  /\ \E a \in DOMAIN ret.s : a + 128 = Len(ret.s) /\ IsTokenAt(ret.s, a, a + 128)

\* The path exists and, when it is a file, can be opened.
Usable(path) ==
  IF path.kind = "missing" THEN FALSE
  ELSE IF path.kind = "file" THEN path.readable
  ELSE TRUE

\* The class tokens of a usable path: those of the file, or those scanDir
\* finds in the directory.
TokensOf(opts, path) ==
  IF path.kind = "file"
  THEN scanFile([lines |-> path.lines, err |-> Nil]).classes
  ELSE scanDir(opts, path.name, path.tree).classes

\* C30: ScanPaths returns no error and the union of the class tokens of the
\* paths that exist and can be read; the paths that are missing or cannot be
\* read change nothing: the call without them returns the same; no path
\* gives the empty set.
C30_ScanPathsTolerance ==
  ret.op = "ScanPaths" =>
    LET usable == SelectSeq(ret.paths, Usable)
    IN /\ ret.err = Nil
       /\ ret.classes = UNION {TokensOf(ret.opts, usable[i]) : i \in DOMAIN usable}
       /\ ScanPaths(ret.opts, usable).classes = ret.classes
       /\ ScanPaths(ret.opts, usable).err = Nil
       /\ ret.paths = <<>> => ret.classes = {}

\* ScanPaths has met a missing path first and a readable directory after it,
\* and returned the class of the directory.
C30_Witness ==
  /\ ret.op = "ScanPaths"
  /\ Len(ret.paths) = 2
  /\ ret.paths[1].kind = "missing"
  /\ ret.paths[2].kind = "dir"
  /\ ret.classes = {<<"c">>}
  /\ ret.err = Nil

====
